---------------------------- MODULE Spec2Model ----------------------------
(***************************************************************************)
(* Bubbl chatbot API: the request pipeline of POST /api/chat               *)
(* (app/api/chat/route.ts) with the helpers it calls: validateApiKey       *)
(* (lib/api-auth), validateSiteUrl and sanitizeMessage (lib/validation),   *)
(* Logger (lib/logger) and logRequestMetrics (lib/monitoring).             *)
(*                                                                         *)
(* JavaScript strings that the code takes apart (messages, API keys, host  *)
(* names, comma separated environment lists) are sequences of one          *)
(* character strings.  Strings the code only compares or passes on (error  *)
(* codes, thread ids, request ids, header names) are TLA+ strings.  A      *)
(* JavaScript object is a function from its property names; an absent      *)
(* property is absent from the DOMAIN.                                     *)
(***************************************************************************)
EXTENDS Integers, Sequences, FiniteSets, TLC

VARIABLES
    env,            \* process.env: a function from the names that are set
    pc,             \* where the POST handler of the request in flight stands
    request,        \* the HTTP request in flight
    requestId,      \* crypto.randomUUID() of the request in flight
    requestCount,   \* requests received so far by this process
    locals,         \* the handler's local constants once they are bound
    providerCalls,  \* calls of generateText made for the request in flight
    response,       \* what the handler returned (NoResponse before that)
    log,            \* console output written for the request in flight
    inFlight,       \* generateText calls and timers that have not settled yet
    probe           \* a direct call of one helper: its argument and results

vars == <<env, pc, request, requestId, requestCount, locals, providerCalls,
          response, log, inFlight, probe>>

handlerVars == <<pc, request, requestId, requestCount, locals, providerCalls,
                 response, log, inFlight>>

-----------------------------------------------------------------------------
(* Bounds of the model *)

\* longest message handed to sanitizeMessage directly
MaxMessageLen == 6
\* the slice limit of sanitizeMessage, scaled down from the source's 2000
SliceLimit == 4
\* longest BUBBL_API_KEYS value explored by the validateApiKey probe
MaxKeyListLen == 3
\* longest presented key explored by the validateApiKey probe
MaxKeyLen == 2
\* requests one process run receives
MaxRequests == 2
\* changes of the environment made while the process runs
MaxEnvChanges == 2
\* longest history explored entry by entry by the prompt-assembly probe
MaxHistoryLen == 3
\* submissions one mounted chat widget receives
MaxSubmissions == 2

-----------------------------------------------------------------------------
(* JavaScript strings as sequences of characters *)

\* the characters String.prototype.trim removes, as far as the model has them
WhiteSpace == {" ", "\n"}

Min(a, b) == IF a < b THEN a ELSE b

\* all sequences over chars of length at most n
RECURSIVE StringsUpTo(_, _)
StringsUpTo(chars, n) ==
    IF n = 0 THEN {<< >>}
    ELSE LET shorter == StringsUpTo(chars, n - 1)
         IN  shorter \cup {Append(s, c) : s \in {t \in shorter : Len(t) = n - 1}, c \in chars}

RECURSIVE trimStart(_)
trimStart(s) ==
    IF s = << >> \/ Head(s) \notin WhiteSpace THEN s ELSE trimStart(Tail(s))

RECURSIVE trimEnd(_)
trimEnd(s) ==
    IF s = << >> \/ s[Len(s)] \notin WhiteSpace THEN s
    ELSE trimEnd(SubSeq(s, 1, Len(s) - 1))

\* String.prototype.trim
trim(s) == trimEnd(trimStart(s))

\* String.prototype.slice(0, n) for n >= 0
sliceTo(s, n) == SubSeq(s, 1, Min(n, Len(s)))

\* index of the first occurrence of character c in s, 0 when there is none
RECURSIVE indexOfFrom(_, _, _)
indexOfFrom(s, c, i) ==
    IF i > Len(s) THEN 0
    ELSE IF s[i] = c THEN i
    ELSE indexOfFrom(s, c, i + 1)

\* String.prototype.split(sep) for a one character separator:
\* "" gives [""], "a," gives ["a", ""]
RECURSIVE split(_, _)
split(s, sep) ==
    LET i == indexOfFrom(s, sep, 1)
    IN  IF i = 0 THEN <<s>>
        ELSE <<SubSeq(s, 1, i - 1)>> \o split(SubSeq(s, i + 1, Len(s)), sep)

\* Array.prototype.map(x => x.trim())
mapTrim(list) == [i \in 1..Len(list) |-> trim(list[i])]

\* String.prototype.endsWith
endsWith(s, suffix) ==
    /\ Len(suffix) <= Len(s)
    /\ SubSeq(s, Len(s) - Len(suffix) + 1, Len(s)) = suffix

-----------------------------------------------------------------------------
(* process.env *)

IsSet(name) == name \in DOMAIN env

\* a || b for objects as functions: b's properties win
Merge(a, b) ==
    [k \in DOMAIN a \cup DOMAIN b |-> IF k \in DOMAIN b THEN b[k] ELSE a[k]]

NoProps == << >>

-----------------------------------------------------------------------------
(* lib/validation: sanitizeMessage *)

\* a trim that removes one white space character from each end only
trimOnce(s) ==
    LET a == IF s # << >> /\ Head(s) \in WhiteSpace THEN Tail(s) ELSE s
    IN  IF a # << >> /\ a[Len(a)] \in WhiteSpace THEN SubSeq(a, 1, Len(a) - 1) ELSE a

sanitizeMessage_TrimOnce(message) == sliceTo(trimOnce(message), SliceLimit)


sanitizeMessage_SliceFirst(message) == trim(sliceTo(message, SliceLimit))

\* sanitizeMessage with white space removed at the end only
sanitizeMessage_TrimEndOnly(message) == sliceTo(trimEnd(message), SliceLimit)

sanitizeMessage(message) == sliceTo(trim(message), SliceLimit)

-----------------------------------------------------------------------------
(* lib/api-auth: validateApiKey *)

\* crypto.timingSafeEqual on two buffers of equal length
timingSafeEqual(a, b) == \A i \in 1..Len(a) : a[i] = b[i]

\* the key list as it was when the process started, whatever it is now
validKeys_ReadAtStartup ==
    IF "startup" \in DOMAIN probe
    THEN IF "BUBBL_API_KEYS" \in DOMAIN probe.startup
         THEN mapTrim(split(probe.startup.BUBBL_API_KEYS, ",")) ELSE << >>
    ELSE IF IsSet("BUBBL_API_KEYS") THEN mapTrim(split(env.BUBBL_API_KEYS, ","))
    ELSE << >>

\* process.env.BUBBL_API_KEYS?.split(',').map(k => k.trim()) || []
validKeys ==
    IF IsSet("BUBBL_API_KEYS") THEN mapTrim(split(env.BUBBL_API_KEYS, ","))
    ELSE << >>

\* a presented key is null or a string; null and "" are falsy
NullKey == [null |-> TRUE]
KeyOf(s) == [str |-> s]
KeyIsFalsy(providedKey) == providedKey = NullKey \/ providedKey = KeyOf(<< >>)

validateApiKey_AuthAlwaysOn(providedKey) ==
    IF KeyIsFalsy(providedKey) THEN FALSE
    ELSE IF Len(validKeys) = 0 THEN FALSE
    ELSE \E i \in 1..Len(validKeys) :
            /\ Len(validKeys[i]) = Len(providedKey.str)
            /\ timingSafeEqual(validKeys[i], providedKey.str)

validateApiKey_PrefixMatch(providedKey) ==
    IF IsSet("REQUIRE_API_KEY") /\ env.REQUIRE_API_KEY = "false" THEN TRUE
    ELSE IF KeyIsFalsy(providedKey) THEN FALSE
    ELSE IF Len(validKeys) = 0 THEN FALSE
    ELSE \E i \in 1..Len(validKeys) :
            /\ Len(validKeys[i]) <= Len(providedKey.str)
            /\ timingSafeEqual(validKeys[i], providedKey.str)

validateApiKey(providedKey) ==
    IF IsSet("REQUIRE_API_KEY") /\ env.REQUIRE_API_KEY = "false" THEN TRUE
    ELSE IF KeyIsFalsy(providedKey) THEN FALSE
    ELSE IF Len(validKeys) = 0 THEN FALSE
    ELSE \E i \in 1..Len(validKeys) :
            /\ Len(validKeys[i]) = Len(providedKey.str)
            /\ timingSafeEqual(validKeys[i], providedKey.str)

-----------------------------------------------------------------------------
(* lib/validation: validateSiteUrl.  Its argument is undefined, a string that
   new URL() rejects, or a string that new URL() parses; a parsed URL is given by
   the fields the URL object reports for it. *)

UrlUndefined == [undefined |-> TRUE]
UrlUnparsable == [unparsable |-> TRUE]
Null == [null |-> TRUE]
StrOf(s) == [str |-> s]
IsNull(v) == "null" \in DOMAIN v

HttpProtocols == {<<"h", "t", "t", "p", ":">>, <<"h", "t", "t", "p", "s", ":">>}

\* 'https://bubbl.io', the fallback of process.env.DEFAULT_SITE_URL
FallbackSiteUrl ==
    <<"h", "t", "t", "p", "s", ":", "/", "/", "b", "u", "b", "b", "l", ".", "i", "o">>

\* process.env.DEFAULT_SITE_URL || 'https://bubbl.io'
defaultSiteUrl ==
    IF IsSet("DEFAULT_SITE_URL") /\ env.DEFAULT_SITE_URL # << >>
    THEN env.DEFAULT_SITE_URL ELSE FallbackSiteUrl

\* process.env.ALLOWED_SITE_DOMAINS?.split(',').map(d => d.trim()) || []
allowedDomains ==
    IF IsSet("ALLOWED_SITE_DOMAINS") THEN mapTrim(split(env.ALLOWED_SITE_DOMAINS, ","))
    ELSE << >>

\* a match on the domain's characters alone, without the dot before them
isAllowed_SuffixWithoutDot(hostname) ==
    \E i \in 1..Len(allowedDomains) :
        \/ hostname = allowedDomains[i]
        \/ endsWith(hostname, allowedDomains[i])

\* allowedDomains.some(domain => hostname === domain || hostname.endsWith(`.${domain}`))
isAllowed(hostname) ==
    \E i \in 1..Len(allowedDomains) :
        \/ hostname = allowedDomains[i]
        \/ endsWith(hostname, <<".">> \o allowedDomains[i])

\* parsed.pathname === '/' ? '' : parsed.pathname.replace(/\/$/, '')
normalizedPathname(pathname) ==
    IF pathname = <<"/">> THEN << >>
    ELSE IF pathname # << >> /\ pathname[Len(pathname)] = "/"
         THEN SubSeq(pathname, 1, Len(pathname) - 1)
         ELSE pathname

InProduction == IsSet("NODE_ENV") /\ env.NODE_ENV = "production"

(* new URL(href), as far as validateSiteUrl reads its result: the scheme is the
   stretch before the first colon and has to be non-empty and free of
   delimiters; for http and https the slashes after the colon are skipped, the
   host runs to the next slash and has to be non-empty and free of spaces, and
   an empty path reads as "/"; the query starts at the first "?" and the
   fragment at the first "#".  Anything else makes the constructor throw. *)

UrlDelimiters == {":", "/", "?", "#", " ", ",", "*"}

\* index of the first character of s from i on that is in chars, Len(s) + 1
\* when there is none
RECURSIVE indexOfAny(_, _, _)
indexOfAny(s, chars, i) ==
    IF i > Len(s) THEN Len(s) + 1
    ELSE IF s[i] \in chars THEN i
    ELSE indexOfAny(s, chars, i + 1)

RECURSIVE skipSlashes(_)
skipSlashes(s) ==
    IF s # << >> /\ Head(s) = "/" THEN skipSlashes(Tail(s)) ELSE s

newURL(href) ==
    LET colon == indexOfFrom(href, ":", 1)
        protocol == SubSeq(href, 1, colon)
        rest == SubSeq(href, colon + 1, Len(href))
        hashAt == indexOfAny(rest, {"#"}, 1)
        beforeHash == SubSeq(rest, 1, hashAt - 1)
        searchAt == indexOfAny(beforeHash, {"?"}, 1)
        hier == SubSeq(beforeHash, 1, searchAt - 1)
        afterSlashes == skipSlashes(hier)
        pathAt == indexOfAny(afterSlashes, {"/"}, 1)
        host == SubSeq(afterSlashes, 1, pathAt - 1)
        path == SubSeq(afterSlashes, pathAt, Len(afterSlashes))
        search == SubSeq(beforeHash, searchAt, Len(beforeHash))
        hash == SubSeq(rest, hashAt, Len(rest))
    IN  IF colon <= 1 \/ \E k \in 1..(colon - 1) : href[k] \in UrlDelimiters \cup {"."}
        THEN UrlUnparsable
        ELSE IF protocol \in HttpProtocols
        THEN IF host = << >> \/ \E k \in 1..Len(host) : host[k] = " "
             THEN UrlUnparsable
             ELSE [protocol |-> protocol, hostname |-> host,
                   pathname |-> IF path = << >> THEN <<"/">> ELSE path,
                   search |-> search, hash |-> hash]
        ELSE [protocol |-> protocol, hostname |-> << >>, pathname |-> hier,
              search |-> search, hash |-> hash]

\* the argument of validateSiteUrl as the function sees it: undefined and ""
\* are falsy at line 16, any other string goes to new URL at line 21
siteUrlArgument(arg) ==
    IF "undefined" \in DOMAIN arg \/ arg.str = << >> THEN UrlUndefined
    ELSE newURL(arg.str)

\* the protocol checked only where the allow-list is checked
validateSiteUrl_ProtocolCheckedInProduction(url) ==
    IF url = UrlUndefined THEN StrOf(defaultSiteUrl)
    ELSE IF url = UrlUnparsable THEN Null
    ELSE IF InProduction /\ url.protocol \notin HttpProtocols THEN Null
    ELSE IF /\ InProduction
            /\ ~(Len(allowedDomains) = 0 \/ \E i \in 1..Len(allowedDomains) : allowedDomains[i] = <<"*">>)
            /\ ~isAllowed(url.hostname)
         THEN Null
    ELSE StrOf(url.protocol \o <<"/", "/">> \o url.hostname \o normalizedPathname(url.pathname))

\* the query string kept in the result
validateSiteUrl_SearchKept(url) ==
    IF url = UrlUndefined THEN StrOf(defaultSiteUrl)
    ELSE IF url = UrlUnparsable THEN Null
    ELSE IF url.protocol \notin HttpProtocols THEN Null
    ELSE IF /\ InProduction
            /\ ~(Len(allowedDomains) = 0 \/ \E i \in 1..Len(allowedDomains) : allowedDomains[i] = <<"*">>)
            /\ ~isAllowed(url.hostname)
         THEN Null
    ELSE StrOf(url.protocol \o <<"/", "/">> \o url.hostname
                  \o normalizedPathname(url.pathname) \o url.search)

\* the repository's second copy of validateSiteUrl: without an allow-list it
\* returns null in production, "*" is an entry like any other, and the
\* pathname is returned as parsed
validateSiteUrlSecondCopy(url) ==
    IF url = UrlUndefined THEN StrOf(defaultSiteUrl)
    ELSE IF url = UrlUnparsable THEN Null
    ELSE IF url.protocol \notin HttpProtocols THEN Null
    ELSE IF InProduction /\ Len(allowedDomains) = 0 THEN Null
    ELSE IF InProduction /\ ~isAllowed(url.hostname) THEN Null
    ELSE StrOf(url.protocol \o <<"/", "/">> \o url.hostname \o url.pathname)

validateSiteUrl(url) ==
    IF url = UrlUndefined THEN StrOf(defaultSiteUrl)
    ELSE IF url = UrlUnparsable THEN Null
    ELSE IF url.protocol \notin HttpProtocols THEN Null
    ELSE IF /\ InProduction
            /\ ~(Len(allowedDomains) = 0 \/ \E i \in 1..Len(allowedDomains) : allowedDomains[i] = <<"*">>)
            /\ ~isAllowed(url.hostname)
         THEN Null
    ELSE StrOf(url.protocol \o <<"/", "/">> \o url.hostname \o normalizedPathname(url.pathname))

-----------------------------------------------------------------------------
(* lib/logger: Logger.  An entry of the log records the console method used,
   the level, the message and the requestId of the context. *)

LogLevels == <<"debug", "info", "warn", "error", "security">>

\* Array.prototype.indexOf on LogLevels, from 0, -1 when absent
levelIndex(level) ==
    IF \E i \in 1..Len(LogLevels) : LogLevels[i] = level
    THEN (CHOOSE i \in 1..Len(LogLevels) : LogLevels[i] = level) - 1
    ELSE -1

\* this.logLevel = process.env.LOG_LEVEL || 'info'
logLevel == IF IsSet("LOG_LEVEL") /\ env.LOG_LEVEL # "" THEN env.LOG_LEVEL ELSE "info"

shouldLog(level) == levelIndex(level) >= levelIndex(logLevel)

ConsoleOf(level) ==
    CASE level = "debug" -> "debug"
      [] level = "info" -> "log"
      [] level = "warn" -> "warn"
      [] OTHER -> "error"

LogEntry(level, message, id) ==
    [console |-> ConsoleOf(level), level |-> level, message |-> message, requestId |-> id]

\* logger.info, logger.warn, logger.error
loggerWrite(level, message, id) ==
    IF shouldLog(level) THEN <<LogEntry(level, message, id)>> ELSE << >>

\* security events written through logger.error, under its level check
loggerSecurity_AsError(message, id) ==
    IF shouldLog("error") THEN <<LogEntry("security", message, id)>> ELSE << >>

\* logger.security: written whatever the log level
loggerSecurity(message, id) == <<LogEntry("security", message, id)>>

\* console.warn, console.error, console.log called directly by the validators
consoleWrite(method, message) ==
    <<[console |-> method, level |-> "none", message |-> message, requestId |-> "none"]>>

\* what validateApiKey writes: console.error when no keys are configured
validateApiKeyConsole(providedKey) ==
    IF /\ ~(IsSet("REQUIRE_API_KEY") /\ env.REQUIRE_API_KEY = "false")
       /\ ~KeyIsFalsy(providedKey)
       /\ Len(validKeys) = 0
    THEN consoleWrite("error", "No API keys configured in BUBBL_API_KEYS")
    ELSE << >>

\* what validateSiteUrl writes
validateSiteUrlConsole(url) ==
    IF url = UrlUndefined THEN << >>
    ELSE IF url = UrlUnparsable THEN consoleWrite("warn", "Invalid URL format")
    ELSE IF url.protocol \notin HttpProtocols
         THEN consoleWrite("warn", "Invalid protocol in site_url")
    ELSE IF ~InProduction THEN << >>
    ELSE IF Len(allowedDomains) = 0 \/ \E i \in 1..Len(allowedDomains) : allowedDomains[i] = <<"*">>
         THEN consoleWrite("log", "Allowing all domains (no whitelist configured or wildcard set)")
    ELSE IF ~isAllowed(url.hostname) THEN consoleWrite("warn", "Domain not in whitelist")
    ELSE << >>

\* lib/monitoring: logRequestMetrics
logRequestMetrics(id, statusCode) ==
    loggerWrite("info", "Request completed", id)
        \o (IF statusCode >= 500 THEN loggerWrite("error", "Server error occurred", id)
            ELSE << >>)

-----------------------------------------------------------------------------
(* app/api/chat/route.ts: POST.  A response is its HTTP status and its JSON
   body; a property whose value is undefined is left out of the body, as
   Response.json leaves it out. *)

ERROR_RESPONSES ==
    [VALIDATION_ERROR |->
        [code |-> "VALIDATION_ERROR", message |-> "Invalid request payload",
         userMessage |-> "Please provide a valid message.", retryable |-> FALSE],
     RATE_LIMIT |->
        [code |-> "RATE_LIMIT", message |-> "Rate limit exceeded",
         userMessage |-> "I'm getting a lot of requests right now. Please wait a moment and try again.",
         retryable |-> TRUE],
     MODEL_ERROR |->
        [code |-> "MODEL_ERROR", message |-> "Model unavailable",
         userMessage |-> "I'm temporarily unavailable. Please try again in a moment.",
         retryable |-> TRUE],
     TIMEOUT |->
        [code |-> "TIMEOUT", message |-> "Request timeout",
         userMessage |-> "The request is taking too long. Please try again.",
         retryable |-> TRUE],
     UNKNOWN |->
        [code |-> "UNKNOWN", message |-> "Unknown error",
         userMessage |-> "I'm having trouble connecting right now. Please try again!",
         retryable |-> TRUE],
     AUTH_ERROR |->
        [code |-> "AUTH_ERROR", message |-> "Invalid or missing API key",
         userMessage |-> "Authentication failed. Please provide a valid API key.",
         retryable |-> FALSE]]

ErrorCodes == DOMAIN ERROR_RESPONSES

Respond(status, body) == [status |-> status, body |-> body]

\* lines 107-113
ConfigErrorResponse(id) ==
    Respond(503, [message |-> "Service configuration error. Please contact support.",
                  error |-> TRUE, code |-> "MODEL_ERROR", retryable |-> FALSE,
                  requestId |-> id])

ContentTypeResponse_NoRequestId(id) == Respond(400, ERROR_RESPONSES.VALIDATION_ERROR)

\* lines 121-124
ContentTypeResponse(id) ==
    Respond(400, Merge(ERROR_RESPONSES.VALIDATION_ERROR, [requestId |-> id]))

\* lines 131-135
InvalidJsonResponse(id) ==
    Respond(400, Merge(ERROR_RESPONSES.VALIDATION_ERROR,
                       [message |-> "Invalid JSON payload", requestId |-> id]))

\* lines 143-146
AuthResponse(id) ==
    Respond(401, Merge(ERROR_RESPONSES.AUTH_ERROR, [requestId |-> id]))

\* lines 161-165
SiteUrlResponse(id) ==
    Respond(400, Merge(ERROR_RESPONSES.VALIDATION_ERROR,
                       [userMessage |-> "Invalid site URL provided.", requestId |-> id]))

\* lines 171-174
MessageTypeResponse(id) ==
    Respond(400, Merge(ERROR_RESPONSES.VALIDATION_ERROR, [requestId |-> id]))

\* lines 180-184
EmptyMessageResponse(id) ==
    Respond(400, Merge(ERROR_RESPONSES.VALIDATION_ERROR,
                       [userMessage |-> "Please enter a message.", requestId |-> id]))

(* The request: the content-type and x-api-key headers and the body.  The body
   is text that request.json() rejects, or the JSON value it parses to: null,
   or an object with any of the properties message, thread_id, site_url. *)

BodyUnparsable == [unparsable |-> TRUE]
BodyObject(props) == [object |-> props]

\* await request.json().catch(() => null)
parsedBody(req) == IF req.body = BodyUnparsable THEN Null ELSE req.body

\* contentType?.includes('application/json')
includesJson(contentType) ==
    contentType \in {"application/json", "application/json; charset=utf-8"}

\* a message is a JSON number or a JSON string
NumberOf(n) == [num |-> n]
IsString(v) == "str" \in DOMAIN v

\* a property of the destructured body, undefined when absent
Prop(props, name) == IF name \in DOMAIN props THEN props[name] ELSE [undefined |-> TRUE]
IsUndefined(v) == "undefined" \in DOMAIN v

\* !message || typeof message !== 'string'
messageRejected(message) ==
    \/ IsUndefined(message)
    \/ ~IsString(message)
    \/ message.str = << >>

\* thread_id || requestId, for a thread_id that is undefined or a string
threadIdOr(thread_id, id) ==
    IF IsUndefined(thread_id) \/ thread_id.str = "" THEN id ELSE thread_id.str

responseThreadId_AlwaysRequestId(thread_id, id) == id

responseThreadId(thread_id, id) == threadIdOr(thread_id, id)

\* the outcome of one synchronous stretch of the handler: the response it
\* returned (NoResponse when it went on to the next await), what it logged,
\* the locals it bound and the generateText calls it made
Outcome(resp, entries, bound, calls) ==
    [response |-> resp, log |-> entries, locals |-> bound, calls |-> calls]

NoResponseYet == [none |-> TRUE]

\* lines 86-127: from entry to the await of request.json()
EntryOutcome(req, id) ==
    IF ~(IsSet("OPENAI_API_KEY") /\ env.OPENAI_API_KEY # "")
    THEN Outcome(ConfigErrorResponse(id),
                 loggerWrite("error", "OPENAI_API_KEY not configured", id), << >>, 0)
    ELSE IF ~includesJson(req.contentType)
    THEN Outcome(ContentTypeResponse(id),
                 loggerWrite("warn", "Invalid content type", id), << >>, 0)
    ELSE Outcome(NoResponseYet, << >>, << >>, 0)

(* The conversation history: the messages property is absent, not an array, or
   an array whose entries are null or objects with any of role and content. *)

ArrayOf(list) == [array |-> list]
IsArray(v) == "array" \in DOMAIN v

\* m && typeof m.content === 'string' && ['user', 'assistant'].includes(m.role)
validEntry(m) ==
    /\ ~IsNull(m)
    /\ "content" \in DOMAIN m /\ IsString(m.content)
    /\ "role" \in DOMAIN m /\ m.role \in {"user", "assistant"}

RECURSIVE filterValid(_)
filterValid(list) ==
    IF list = << >> THEN << >>
    ELSE (IF validEntry(Head(list)) THEN <<Head(list)>> ELSE << >>) \o filterValid(Tail(list))

\* Array.isArray(messages) ? messages.filter(...) : []
validMessages(messages) ==
    IF IsArray(messages) THEN filterValid(messages.array) ELSE << >>

\* chatbotConfig.model.contextMessages
contextMessages == 5

\* Array.prototype.slice(-n) for n >= 0: slice(-0) is slice(0), the whole array
sliceLast(list, n) ==
    IF n = 0 \/ n >= Len(list) THEN list
    ELSE SubSeq(list, Len(list) - n + 1, Len(list))

\* chatbotConfig.systemPrompt(site_url): the template with the site URL filled in
systemPrompt(site_url) == [template |-> "systemPrompt", siteUrl |-> site_url]

\* lines 196-200 with the window taken from the history before it is filtered
assemble_WindowBeforeFilter(site_url, messages, sanitizedMessage, n) ==
    <<[role |-> "system", content |-> systemPrompt(site_url)]>>
        \o (IF IsArray(messages) THEN filterValid(sliceLast(messages.array, n)) ELSE << >>)
        \o <<[role |-> "user", content |-> StrOf(sanitizedMessage)]>>

\* lines 187-200 under a configuration whose model.contextMessages is n
assemble(site_url, messages, sanitizedMessage, n) ==
    <<[role |-> "system", content |-> systemPrompt(site_url)]>>
        \o sliceLast(validMessages(messages), n)
        \o <<[role |-> "user", content |-> StrOf(sanitizedMessage)]>>

\* lines 196-200
conversationMessages(site_url, messages, sanitizedMessage) ==
    assemble(site_url, messages, sanitizedMessage, contextMessages)

\* lines 127-221 with the call made before the message is validated
AfterParseOutcome_CallBeforeValidation(req, id) ==
    LET body == parsedBody(req)
        props == body.object
        message == Prop(props, "message")
    IN  IF IsNull(body)
        THEN Outcome(InvalidJsonResponse(id),
                     loggerWrite("warn", "Failed to parse request body", id), << >>, 0)
        ELSE IF ~validateApiKey(req.apiKey)
        THEN Outcome(AuthResponse(id),
                     validateApiKeyConsole(req.apiKey)
                        \o loggerSecurity("Invalid or missing API key", id), << >>, 0)
        ELSE IF IsNull(validateSiteUrl(Prop(props, "site_url")))
        THEN Outcome(SiteUrlResponse(id),
                     validateSiteUrlConsole(Prop(props, "site_url"))
                        \o loggerWrite("warn", "Invalid site_url", id), << >>, 0)
        ELSE IF messageRejected(message)
        THEN Outcome(MessageTypeResponse(id),
                     validateSiteUrlConsole(Prop(props, "site_url"))
                        \o loggerWrite("warn", "Invalid message type", id), << >>, 1)
        ELSE IF Len(sanitizeMessage(message.str)) = 0
        THEN Outcome(EmptyMessageResponse(id),
                     validateSiteUrlConsole(Prop(props, "site_url")), << >>, 1)
        ELSE Outcome(NoResponseYet,
                     validateSiteUrlConsole(Prop(props, "site_url"))
                        \o loggerWrite("info", "Processing message", id),
                     [thread_id |-> Prop(props, "thread_id"),
                      site_url |-> validateSiteUrl(Prop(props, "site_url")).str,
                      sanitizedMessage |-> sanitizeMessage(message.str),
                      conversationMessages |->
                          conversationMessages(validateSiteUrl(Prop(props, "site_url")).str,
                                               Prop(props, "messages"),
                                               sanitizeMessage(message.str))],
                     1)

\* lines 127-221 with the site URL validated before the API key
AfterParseOutcome_SiteUrlBeforeKey(req, id) ==
    LET body == parsedBody(req)
        props == body.object
        message == Prop(props, "message")
    IN  IF IsNull(body)
        THEN Outcome(InvalidJsonResponse(id),
                     loggerWrite("warn", "Failed to parse request body", id), << >>, 0)
        ELSE IF IsNull(validateSiteUrl(Prop(props, "site_url")))
        THEN Outcome(SiteUrlResponse(id),
                     validateSiteUrlConsole(Prop(props, "site_url"))
                        \o loggerWrite("warn", "Invalid site_url", id), << >>, 0)
        ELSE IF ~validateApiKey(req.apiKey)
        THEN Outcome(AuthResponse(id),
                     validateSiteUrlConsole(Prop(props, "site_url"))
                        \o validateApiKeyConsole(req.apiKey)
                        \o loggerSecurity("Invalid or missing API key", id), << >>, 0)
        ELSE IF messageRejected(message)
        THEN Outcome(MessageTypeResponse(id),
                     validateSiteUrlConsole(Prop(props, "site_url"))
                        \o loggerWrite("warn", "Invalid message type", id), << >>, 0)
        ELSE IF Len(sanitizeMessage(message.str)) = 0
        THEN Outcome(EmptyMessageResponse(id),
                     validateSiteUrlConsole(Prop(props, "site_url")), << >>, 0)
        ELSE Outcome(NoResponseYet,
                     validateSiteUrlConsole(Prop(props, "site_url"))
                        \o loggerWrite("info", "Processing message", id),
                     [thread_id |-> Prop(props, "thread_id"),
                      site_url |-> validateSiteUrl(Prop(props, "site_url")).str,
                      sanitizedMessage |-> sanitizeMessage(message.str),
                      conversationMessages |->
                          conversationMessages(validateSiteUrl(Prop(props, "site_url")).str,
                                               Prop(props, "messages"),
                                               sanitizeMessage(message.str))],
                     1)

\* lines 127-221: from the parsed body to the await of Promise.race; the one
\* call of generateText is made once every check has passed
AfterParseOutcome(req, id) ==
    LET body == parsedBody(req)
        props == body.object
        message == Prop(props, "message")
    IN  IF IsNull(body)
        THEN Outcome(InvalidJsonResponse(id),
                     loggerWrite("warn", "Failed to parse request body", id), << >>, 0)
        ELSE IF ~validateApiKey(req.apiKey)
        THEN Outcome(AuthResponse(id),
                     validateApiKeyConsole(req.apiKey)
                        \o loggerSecurity("Invalid or missing API key", id), << >>, 0)
        ELSE IF IsNull(validateSiteUrl(Prop(props, "site_url")))
        THEN Outcome(SiteUrlResponse(id),
                     validateSiteUrlConsole(Prop(props, "site_url"))
                        \o loggerWrite("warn", "Invalid site_url", id), << >>, 0)
        ELSE IF messageRejected(message)
        THEN Outcome(MessageTypeResponse(id),
                     validateSiteUrlConsole(Prop(props, "site_url"))
                        \o loggerWrite("warn", "Invalid message type", id), << >>, 0)
        ELSE IF Len(sanitizeMessage(message.str)) = 0
        THEN Outcome(EmptyMessageResponse(id),
                     validateSiteUrlConsole(Prop(props, "site_url")), << >>, 0)
        ELSE Outcome(NoResponseYet,
                     validateSiteUrlConsole(Prop(props, "site_url"))
                        \o loggerWrite("info", "Processing message", id),
                     [thread_id |-> Prop(props, "thread_id"),
                      site_url |-> validateSiteUrl(Prop(props, "site_url")).str,
                      sanitizedMessage |-> sanitizeMessage(message.str),
                      conversationMessages |->
                          conversationMessages(validateSiteUrl(Prop(props, "site_url")).str,
                                               Prop(props, "messages"),
                                               sanitizeMessage(message.str))],
                     1)

(* The race of lines 209-221.  generateText resolves with a result or rejects
   with any value; the 25 s timer rejects with Error('Request timeout'). *)

ProviderResults == {[text |-> "Hi there!"], [text |-> ""]}

FallbackText == "I'm here to help! Could you tell me more about what you're looking for?"

TimeoutError == [message |-> "Request timeout"]

\* what generateText may reject with: Error objects with and without a status,
\* an object without a message, and null
ProviderErrors ==
    {[message |-> "Request timeout"],
     [message |-> "rate limit exceeded"],
     [message |-> "Too Many Requests", status |-> 429],
     [message |-> "The model does not exist"],
     [message |-> "rate limit reached for the model"],
     [message |-> "The model is overloaded", status |-> 429],
     [message |-> "socket hang up"],
     [status |-> 500],
     Null}

\* error?.message
messageOf(error) ==
    IF ~IsNull(error) /\ "message" \in DOMAIN error THEN error.message ELSE "<undefined>"

\* String.prototype.includes on the messages above
messageIncludes(message, needle) ==
    CASE needle = "rate limit" ->
            message \in {"rate limit exceeded", "rate limit reached for the model"}
      [] needle = "model" ->
            message \in {"The model does not exist", "rate limit reached for the model",
                         "The model is overloaded"}
      [] needle = "API key" ->
            message \in {"Incorrect API key provided"}
      [] OTHER -> FALSE

\* the message searched for 'model' before the rate limit signals are looked at
classify_ModelBeforeRateLimit(error) ==
    IF messageOf(error) = "Request timeout"
    THEN [apiError |-> ERROR_RESPONSES.TIMEOUT, statusCode |-> 504]
    ELSE IF messageIncludes(messageOf(error), "model")
    THEN [apiError |-> ERROR_RESPONSES.MODEL_ERROR, statusCode |-> 503]
    ELSE IF \/ messageIncludes(messageOf(error), "rate limit")
            \/ (~IsNull(error) /\ "status" \in DOMAIN error /\ error.status = 429)
    THEN [apiError |-> ERROR_RESPONSES.RATE_LIMIT, statusCode |-> 429]
    ELSE [apiError |-> ERROR_RESPONSES.UNKNOWN, statusCode |-> 500]

\* lines 256-269: the error kind and the status
classify(error) ==
    IF messageOf(error) = "Request timeout"
    THEN [apiError |-> ERROR_RESPONSES.TIMEOUT, statusCode |-> 504]
    ELSE IF \/ messageIncludes(messageOf(error), "rate limit")
            \/ (~IsNull(error) /\ "status" \in DOMAIN error /\ error.status = 429)
    THEN [apiError |-> ERROR_RESPONSES.RATE_LIMIT, statusCode |-> 429]
    ELSE IF messageIncludes(messageOf(error), "model")
    THEN [apiError |-> ERROR_RESPONSES.MODEL_ERROR, statusCode |-> 503]
    ELSE [apiError |-> ERROR_RESPONSES.UNKNOWN, statusCode |-> 500]

\* what the handler's promise rejects with when the catch block itself throws
Thrown(what) == [thrown |-> what]

\* lines 222-251: the race resolved with the provider's result
SuccessOutcome(result, id, bound) ==
    Outcome(Respond(200, [message |-> IF result.text = "" THEN FallbackText ELSE result.text,
                          thread_id |-> responseThreadId(bound.thread_id, id),
                          timestamp |-> "toISOString",
                          success |-> TRUE,
                          requestId |-> id,
                          duration |-> "ms"]),
            loggerWrite("info", "Response generated", id) \o logRequestMetrics(id, 200),
            bound, 0)

\* the catch block with details left out in production only
CatchOutcome_DetailsUnlessProduction(error, id, bound) ==
    IF IsNull(error) THEN Outcome(Thrown("TypeError"), << >>, bound, 0)
    ELSE LET c == classify(error)
             details == IF /\ ~(IsSet("NODE_ENV") /\ env.NODE_ENV = "production")
                           /\ "message" \in DOMAIN error
                        THEN [details |-> error.message] ELSE NoProps
         IN  Outcome(Respond(c.statusCode,
                             Merge([message |-> c.apiError.userMessage,
                                    error |-> TRUE,
                                    code |-> c.apiError.code,
                                    retryable |-> c.apiError.retryable,
                                    requestId |-> id,
                                    duration |-> "ms"], details)),
                     loggerWrite("error", "Conversation error", id)
                        \o logRequestMetrics(id, c.statusCode),
                     bound, 0)

\* lines 253-297: the race rejected; reading error.message of null at line 274
\* throws before anything is logged
CatchOutcome(error, id, bound) ==
    IF IsNull(error) THEN Outcome(Thrown("TypeError"), << >>, bound, 0)
    ELSE LET c == classify(error)
             details == IF /\ IsSet("NODE_ENV") /\ env.NODE_ENV = "development"
                           /\ "message" \in DOMAIN error
                        THEN [details |-> error.message] ELSE NoProps
         IN  Outcome(Respond(c.statusCode,
                             Merge([message |-> c.apiError.userMessage,
                                    error |-> TRUE,
                                    code |-> c.apiError.code,
                                    retryable |-> c.apiError.retryable,
                                    requestId |-> id,
                                    duration |-> "ms"], details)),
                     loggerWrite("error", "Conversation error", id)
                        \o logRequestMetrics(id, c.statusCode),
                     bound, 0)

-----------------------------------------------------------------------------
(* The handler at rest: the values of its variables while no request is in
   flight.  The probe specifications below keep the handler there. *)

NoRequest == [none |-> TRUE]
NoResponse == NoResponseYet
NoLocals == << >>
NoProbe == [fn |-> "none"]

HandlerIdle ==
    /\ pc = "idle"
    /\ request = NoRequest
    /\ requestId = "none"
    /\ requestCount = 0
    /\ locals = NoLocals
    /\ providerCalls = 0
    /\ response = NoResponse
    /\ log = << >>
    /\ inFlight = {}

-----------------------------------------------------------------------------
(* Direct calls of sanitizeMessage: the argument is any string over MessageChars
   of at most MaxMessageLen characters; the function is applied to it and then to
   its own result. *)

MessageChars == {"a", "b", " ", "\n"}

InitSanitize ==
    /\ env = NoProps
    /\ HandlerIdle
    /\ probe \in {[fn |-> "sanitizeMessage", arg |-> m, results |-> << >>] :
                    m \in StringsUpTo(MessageChars, MaxMessageLen)}

CallSanitizeMessage ==
    /\ probe.fn = "sanitizeMessage"
    /\ probe.results = << >>
    /\ probe' = [probe EXCEPT !.results = <<sanitizeMessage(probe.arg)>>]
    /\ UNCHANGED <<env, handlerVars>>

CallSanitizeMessageAgain ==
    /\ probe.fn = "sanitizeMessage"
    /\ Len(probe.results) = 1
    /\ probe' = [probe EXCEPT !.results = Append(@, sanitizeMessage(@[1]))]
    /\ UNCHANGED <<env, handlerVars>>

NextSanitize == CallSanitizeMessage \/ CallSanitizeMessageAgain

SpecSanitize == InitSanitize /\ [][NextSanitize]_vars

-----------------------------------------------------------------------------
(* The assembly of the provider's message list (route.ts lines 187-200) on its
   own: the history is absent, not an array, an array of at most MaxHistoryLen
   entries of the kinds the filter tells apart, or one of two longer histories
   of eight entries; model.contextMessages is the shipped value or any value up
   to MaxHistoryLen; the new message has passed sanitizeMessage. *)

HistoryEntries ==
    {[role |-> "user", content |-> StrOf(<<"a">>)],
     [role |-> "assistant", content |-> StrOf(<<"b">>)],
     [role |-> "system", content |-> StrOf(<<"a">>)],
     [role |-> "user", content |-> NumberOf(42)],
     [role |-> "user", content |-> StrOf(<<" ">>)],
     Null}

Turn(who, n) == [role |-> who, content |-> StrOf(<<ToString(n)>>)]

LongHistories ==
    {<<Turn("user", 1), Turn("assistant", 2), Turn("user", 3), Turn("assistant", 4),
       Turn("user", 5), Turn("assistant", 6), Turn("user", 7), Turn("assistant", 8)>>,
     <<Turn("user", 1), Turn("assistant", 2), Turn("user", 3), Turn("system", 4),
       Turn("user", 5), Null, Turn("tool", 7), Turn("assistant", 8)>>}

PromptHistories ==
    {[undefined |-> TRUE], StrOf(<<"a">>)}
        \cup {ArrayOf(h) : h \in StringsUpTo(HistoryEntries, MaxHistoryLen) \cup LongHistories}

ContextSizes == (0 .. MaxHistoryLen) \cup {contextMessages}

PromptSiteUrl == <<"h", "t", "t", "p", "s", ":", "/", "/", "b", ".", "i", "o", "/">>

InitPrompt ==
    /\ env = NoProps
    /\ HandlerIdle
    /\ probe \in {[fn |-> "conversationMessages", messages |-> h, contextMessages |-> n,
                    message |-> m, results |-> << >>] :
                    h \in PromptHistories, n \in ContextSizes,
                    m \in {<<"a">>, <<"a", " ", "b">>}}

\* lines 187-200
CallAssemble ==
    /\ probe.fn = "conversationMessages"
    /\ probe.results = << >>
    /\ probe' = [probe EXCEPT !.results =
                    <<assemble(PromptSiteUrl, probe.messages, probe.message,
                               probe.contextMessages)>>]
    /\ UNCHANGED <<env, handlerVars>>

NextPrompt == CallAssemble

SpecPrompt == InitPrompt /\ [][NextPrompt]_vars

-----------------------------------------------------------------------------
(* Direct calls of validateApiKey: every BUBBL_API_KEYS value over KeyListChars
   of at most MaxKeyListLen characters (or unset), REQUIRE_API_KEY unset, "false"
   or "true", and every presented key over KeyChars of at most MaxKeyLen characters
   (or null). *)

KeyChars == {"a", "b", " "}
KeyListChars == {"a", "b", " ", ","}

PresentedKeys == {NullKey} \cup {KeyOf(k) : k \in StringsUpTo(KeyChars, MaxKeyLen)}

AuthEnvs ==
    {Merge(r, k) :
        r \in {NoProps} \cup {[REQUIRE_API_KEY |-> v] : v \in {"false", "true"}},
        k \in {NoProps} \cup {[BUBBL_API_KEYS |-> s] :
                                s \in StringsUpTo(KeyListChars, MaxKeyListLen)}}

InitAuth ==
    /\ env \in AuthEnvs
    /\ HandlerIdle
    /\ probe \in {[fn |-> "validateApiKey", arg |-> k, results |-> << >>] :
                    k \in PresentedKeys}

CallValidateApiKey ==
    /\ probe.fn = "validateApiKey"
    /\ probe.results = << >>
    /\ probe' = [probe EXCEPT !.results = <<validateApiKey(probe.arg)>>]
    /\ UNCHANGED <<env, handlerVars>>

NextAuth == CallValidateApiKey

SpecAuth == InitAuth /\ [][NextAuth]_vars

-----------------------------------------------------------------------------
(* Direct calls of validateSiteUrl, in either of its two copies: the argument is
   undefined, the empty string, or a string put together from a scheme, a host,
   a path, a query and a fragment (each of them possibly missing), under every
   combination of NODE_ENV, ALLOWED_SITE_DOMAINS and DEFAULT_SITE_URL below. *)

UrlSchemes == {<< >>, <<":">>, <<"h", "t", "t", "p", ":">>, <<"h", "t", "t", "p", "s", ":">>,
               <<"j", "s", ":">>}
UrlSlashes == {<< >>, <<"/", "/">>}
UrlHosts == {<< >>, <<"b", ".", "i", "o">>, <<"a", ".", "b", ".", "i", "o">>,
             <<"x", "b", ".", "i", "o">>, <<"c", ".", "i", "o">>, <<"b", " ", "i", "o">>}
UrlPaths == {<< >>, <<"/">>, <<"/", "p">>, <<"/", "p", "/">>}
UrlQueries == {<< >>, <<"?", "q">>}
UrlFragments == {<< >>, <<"#", "f">>}

Hrefs ==
    {s \o sl \o h \o p \o q \o f :
        s \in UrlSchemes, sl \in UrlSlashes, h \in UrlHosts, p \in UrlPaths,
        q \in UrlQueries, f \in UrlFragments}

SiteUrlArguments == {UrlUndefined} \cup {StrOf(h) : h \in Hrefs}

AllowLists ==
    {<< >>, <<"*">>, <<"b", ".", "i", "o">>,
     <<"c", ".", "i", "o", ",", " ", "b", ".", "i", "o">>,
     <<"c", ".", "i", "o", ",", "*">>}

SiteUrlEnvs ==
    {Merge(Merge(n, a), d) :
        n \in {NoProps, [NODE_ENV |-> "production"], [NODE_ENV |-> "development"]},
        a \in {NoProps} \cup {[ALLOWED_SITE_DOMAINS |-> l] : l \in AllowLists},
        d \in {NoProps, [DEFAULT_SITE_URL |-> <<"h", "t", "t", "p", ":", "/", "/", "d", "?", "x">>]}}

InitSiteUrl ==
    /\ env \in SiteUrlEnvs
    /\ HandlerIdle
    /\ probe \in {[fn |-> fn, arg |-> a, results |-> << >>] :
                    fn \in {"validateSiteUrl", "validateSiteUrlSecondCopy"},
                    a \in SiteUrlArguments}

CallValidateSiteUrl ==
    /\ probe.fn = "validateSiteUrl"
    /\ probe.results = << >>
    /\ probe' = [probe EXCEPT !.results = <<validateSiteUrl(siteUrlArgument(probe.arg))>>]
    /\ UNCHANGED <<env, handlerVars>>

CallValidateSiteUrlSecondCopy ==
    /\ probe.fn = "validateSiteUrlSecondCopy"
    /\ probe.results = << >>
    /\ probe' = [probe EXCEPT
                    !.results = <<validateSiteUrlSecondCopy(siteUrlArgument(probe.arg))>>]
    /\ UNCHANGED <<env, handlerVars>>

NextSiteUrl == CallValidateSiteUrl \/ CallValidateSiteUrlSecondCopy

SpecSiteUrl == InitSiteUrl /\ [][NextSiteUrl]_vars

-----------------------------------------------------------------------------
(* A process whose environment is changed while it runs: between calls of
   validateApiKey and validateSiteUrl an assignment to, or a delete of, one of
   REQUIRE_API_KEY, BUBBL_API_KEYS and ALLOWED_SITE_DOMAINS happens, up to
   MaxEnvChanges times.  The probe keeps the environment of the start and the
   last call with the environment it was made in. *)

ConfigEnvs ==
    {Merge(Merge(r, k), Merge(a, [NODE_ENV |-> "production"])) :
        r \in {NoProps, [REQUIRE_API_KEY |-> "false"]},
        k \in {NoProps, [BUBBL_API_KEYS |-> <<"a">>], [BUBBL_API_KEYS |-> <<"b", ",", "a">>]},
        a \in {NoProps, [ALLOWED_SITE_DOMAINS |-> <<"b", ".", "i", "o">>],
                        [ALLOWED_SITE_DOMAINS |-> <<"c", ".", "i", "o">>]}}

ConfigKeys == {NullKey, KeyOf(<<"a">>), KeyOf(<<"b">>)}

ConfigHrefs ==
    {<<"h", "t", "t", "p", "s", ":", "/", "/", "b", ".", "i", "o", "/">>,
     <<"h", "t", "t", "p", "s", ":", "/", "/", "a", ".", "c", ".", "i", "o", "/", "p">>}

\* the names that two environments do not agree on
ChangedNames(e1, e2) ==
    {n \in DOMAIN e1 \cup DOMAIN e2 :
        ~(n \in DOMAIN e1 /\ n \in DOMAIN e2 /\ e1[n] = e2[n])}

NoCall == [fn |-> "none"]

InitConfig ==
    /\ env \in ConfigEnvs
    /\ HandlerIdle
    /\ probe = [fn |-> "process", startup |-> env, changes |-> 0, lastCall |-> NoCall]

\* process.env.NAME = value, or delete process.env.NAME
SetEnv ==
    /\ probe.fn = "process"
    /\ probe.changes < MaxEnvChanges
    /\ \E e \in ConfigEnvs :
          /\ Cardinality(ChangedNames(env, e)) = 1
          /\ env' = e
    /\ probe' = [probe EXCEPT !.changes = @ + 1]
    /\ UNCHANGED handlerVars

ProcessCallsValidateApiKey ==
    /\ probe.fn = "process"
    /\ \E k \in ConfigKeys :
          probe' = [probe EXCEPT !.lastCall =
                        [fn |-> "validateApiKey", arg |-> k, env |-> env,
                         result |-> validateApiKey(k)]]
    /\ UNCHANGED <<env, handlerVars>>

ProcessCallsValidateSiteUrl ==
    /\ probe.fn = "process"
    /\ \E h \in ConfigHrefs :
          probe' = [probe EXCEPT !.lastCall =
                        [fn |-> "validateSiteUrl", arg |-> h, env |-> env,
                         result |-> validateSiteUrl(siteUrlArgument(StrOf(h)))]]
    /\ UNCHANGED <<env, handlerVars>>

NextConfig == SetEnv \/ ProcessCallsValidateApiKey \/ ProcessCallsValidateSiteUrl

SpecConfig == InitConfig /\ [][NextConfig]_vars

-----------------------------------------------------------------------------
(* The server: one process (its environment fixed at start) receiving up to
   MaxRequests requests, one after the other.  A step is one synchronous stretch
   of the handler, from one await to the next. *)

ServerEnvs ==
    {Merge(Merge(Merge(a, b), Merge(c, d)), Merge(e, f)) :
        a \in {NoProps, [OPENAI_API_KEY |-> "sk-test"]},
        b \in {NoProps, [REQUIRE_API_KEY |-> "false"]},
        c \in {NoProps, [BUBBL_API_KEYS |-> <<"a">>]},
        d \in {NoProps, [NODE_ENV |-> "production"], [NODE_ENV |-> "development"]},
        e \in {NoProps, [ALLOWED_SITE_DOMAINS |-> <<"b", ".", "i", "o">>]},
        f \in {NoProps, [LOG_LEVEL |-> "security"]}}

Https == <<"h", "t", "t", "p", "s", ":">>

\* https://b.io/p?q#f, js:a, https://xb.io/
SiteUrls ==
    {[protocol |-> Https, hostname |-> <<"b", ".", "i", "o">>, pathname |-> <<"/", "p">>,
      search |-> <<"?", "q">>, hash |-> <<"#", "f">>],
     [protocol |-> <<"j", "s", ":">>, hostname |-> << >>, pathname |-> <<"a">>,
      search |-> << >>, hash |-> << >>],
     [protocol |-> Https, hostname |-> <<"x", "b", ".", "i", "o">>, pathname |-> <<"/">>,
      search |-> << >>, hash |-> << >>]}

Histories ==
    {ArrayOf(<<[role |-> "system", content |-> StrOf(<<"b">>)],
               [role |-> "assistant", content |-> StrOf(<<"a">>)]>>)}

BodyProps ==
    {Merge(Merge(m, t), Merge(u, h)) :
        m \in {NoProps} \cup {[message |-> v] :
                v \in {NumberOf(42), StrOf(<< >>), StrOf(<<" ">>), StrOf(<<" ", "a", "b", " ">>)}},
        t \in {NoProps} \cup {[thread_id |-> StrOf(v)] : v \in {"", "thread-1"}},
        u \in {NoProps} \cup {[site_url |-> v] : v \in SiteUrls},
        h \in {NoProps} \cup {[messages |-> v] : v \in Histories}}

Requests ==
    [contentType : {"<null>", "text/plain", "application/json"},
     apiKey : {NullKey, KeyOf(<<"a">>), KeyOf(<<"b">>)},
     body : {BodyUnparsable, Null} \cup {BodyObject(p) : p \in BodyProps}]

\* crypto.randomUUID(): a fresh identifier for each request
randomUUID(n) == "uuid-" \o ToString(n)

Init ==
    /\ env \in ServerEnvs
    /\ HandlerIdle
    /\ probe = NoProbe

Apply(out) ==
    /\ response' = out.response
    /\ log' = log \o out.log
    /\ locals' = out.locals
    /\ providerCalls' = providerCalls + out.calls

\* a request arrives and runs to its first await or to an early response
POST_Entry ==
    /\ pc = "idle"
    /\ requestCount < MaxRequests
    /\ \E req \in Requests :
          LET id == randomUUID(requestCount + 1)
              out == EntryOutcome(req, id)
          IN  /\ request' = req
              /\ requestId' = id
              /\ requestCount' = requestCount + 1
              /\ response' = out.response
              /\ log' = out.log
              /\ locals' = out.locals
              /\ providerCalls' = out.calls
              /\ pc' = IF out.response = NoResponseYet THEN "parsing" ELSE "done"
    /\ UNCHANGED <<env, inFlight, probe>>

\* the response (or the rejection) went out and the request's state is dropped
POST_Return ==
    /\ pc = "done"
    /\ pc' = "idle"
    /\ request' = NoRequest
    /\ requestId' = "none"
    /\ locals' = NoLocals
    /\ providerCalls' = 0
    /\ response' = NoResponse
    /\ log' = << >>
    /\ UNCHANGED <<env, requestCount, inFlight, probe>>

\* the timer of line 211 and the generateText call of line 214, for request id
Timer(id) == [id |-> id, kind |-> "timer"]
ProviderCall(id) == [id |-> id, kind |-> "provider"]

\* request.json() settled: the checks on the body, then the timer is set and
\* generateText is called
POST_AfterParse ==
    /\ pc = "parsing"
    /\ LET out == AfterParseOutcome(request, requestId)
       IN  /\ Apply(out)
           /\ pc' = IF out.response = NoResponseYet THEN "racing" ELSE "done"
           /\ inFlight' = IF out.calls = 0 THEN inFlight
                          ELSE inFlight \cup {Timer(requestId), ProviderCall(requestId)}
    /\ UNCHANGED <<env, request, requestId, requestCount, probe>>

\* a race that is taken to be open for ever: every settlement resumes the handler
raceSettled_Never(id) == FALSE

\* the promise of Promise.race for request id has settled: the handler is not,
\* or no longer, suspended on it
raceSettled(id) == ~(pc = "racing" /\ requestId = id)

\* generateText resolved before the timer fired
POST_ProviderResolves ==
    /\ ProviderCall(requestId) \in inFlight
    /\ ~raceSettled(requestId)
    /\ \E result \in ProviderResults :
          Apply(SuccessOutcome(result, requestId,
                               Merge(locals, [settled |-> "provider resolved"])))
    /\ pc' = "done"
    /\ inFlight' = inFlight \ {ProviderCall(requestId)}
    /\ UNCHANGED <<env, request, requestId, requestCount, probe>>

\* generateText rejected before the timer fired
POST_ProviderRejects ==
    /\ ProviderCall(requestId) \in inFlight
    /\ ~raceSettled(requestId)
    /\ \E error \in ProviderErrors :
          Apply(CatchOutcome(error, requestId,
                             Merge(locals, [settled |-> "provider rejected", error |-> error])))
    /\ pc' = "done"
    /\ inFlight' = inFlight \ {ProviderCall(requestId)}
    /\ UNCHANGED <<env, request, requestId, requestCount, probe>>

\* the timer fired before generateText settled
POST_TimerFires ==
    /\ Timer(requestId) \in inFlight
    /\ ~raceSettled(requestId)
    /\ Apply(CatchOutcome(TimeoutError, requestId,
                          Merge(locals, [settled |-> "timer fired", error |-> TimeoutError])))
    /\ pc' = "done"
    /\ inFlight' = inFlight \ {Timer(requestId)}
    /\ UNCHANGED <<env, request, requestId, requestCount, probe>>

\* generateText resolved or rejected after its race had settled: the settled
\* promise takes no second settlement and no handler is resumed
ProviderSettlesLate ==
    /\ \E c \in inFlight :
          /\ c.kind = "provider"
          /\ raceSettled(c.id)
          /\ inFlight' = inFlight \ {c}
    /\ UNCHANGED <<env, pc, request, requestId, requestCount, locals, providerCalls,
                   response, log, probe>>

\* the timer (never cleared) fired after its race had settled
TimerFiresLate ==
    /\ \E c \in inFlight :
          /\ c.kind = "timer"
          /\ raceSettled(c.id)
          /\ inFlight' = inFlight \ {c}
    /\ UNCHANGED <<env, pc, request, requestId, requestCount, locals, providerCalls,
                   response, log, probe>>

Next ==
    \/ POST_Entry
    \/ POST_AfterParse
    \/ POST_ProviderResolves
    \/ POST_ProviderRejects
    \/ POST_TimerFires
    \/ ProviderSettlesLate
    \/ TimerFiresLate
    \/ POST_Return

Spec == Init /\ [][Next]_vars

-----------------------------------------------------------------------------
(* What it is for one string to be another with its surrounding white space
   removed, stated without the trim operators. *)

\* x[i+1..j] is x without its surrounding white space
IsTrimAt(x, i, j) ==
    /\ i = j \/ (x[i + 1] \notin WhiteSpace /\ x[j] \notin WhiteSpace)
    /\ \A k \in 1..i : x[k] \in WhiteSpace
    /\ \A k \in (j + 1)..Len(x) : x[k] \in WhiteSpace

IsTrimOf(t, x) ==
    \E i \in 0..Len(x) : \E j \in i..Len(x) :
        t = SubSeq(x, i + 1, j) /\ IsTrimAt(x, i, j)

IsPrefixOf(p, s) == Len(p) <= Len(s) /\ SubSeq(s, 1, Len(p)) = p

\* the entries of a comma separated list: the maximal comma free stretches
Entries(s) ==
    {SubSeq(s, i, j) : <<i, j>> \in
        {<<i, j>> \in (1..(Len(s) + 1)) \X (0..Len(s)) :
            /\ i <= j + 1
            /\ i = 1 \/ s[i - 1] = ","
            /\ j = Len(s) \/ s[j + 1] = ","
            /\ \A k \in i..j : s[k] # ","}}

-----------------------------------------------------------------------------
(* The checks of POST /api/chat stated on the request itself, each on its own. *)

IsResponse(r) == "status" \in DOMAIN r
Handled == pc = "done" /\ IsResponse(response)

CredentialConfigured == IsSet("OPENAI_API_KEY") /\ env.OPENAI_API_KEY # ""
ContentTypeIsJson == request.contentType \in {"application/json", "application/json; charset=utf-8"}
BodyIsObject == "object" \in DOMAIN request.body
KeyAccepted == validateApiKey(request.apiKey)
SiteUrlValid ==
    /\ BodyIsObject
    /\ ~IsNull(validateSiteUrl(Prop(request.body.object, "site_url")))
MessageIsString ==
    /\ BodyIsObject
    /\ "message" \in DOMAIN request.body.object
    /\ IsString(request.body.object.message)
    /\ request.body.object.message.str # << >>
MessageNonEmpty ==
    /\ MessageIsString
    /\ \E i \in 1..Len(request.body.object.message.str) :
          request.body.object.message.str[i] \notin WhiteSpace

AllGatesPass ==
    /\ CredentialConfigured /\ ContentTypeIsJson /\ BodyIsObject
    /\ KeyAccepted /\ SiteUrlValid /\ MessageNonEmpty

SecurityEntries == {i \in 1..Len(log) : log[i].level = "security"}

(* C1: generateText is called at most once for a request, and only when the
   provider credential is configured, the content type is JSON, the body parsed,
   the key was accepted, the site URL is valid and the message is a string that
   is non-empty after sanitizing; a response with VALIDATION_ERROR or AUTH_ERROR,
   or the non-retryable configuration MODEL_ERROR, was preceded by no call. *)
C1_ProviderCalledOnlyAfterGates ==
    /\ providerCalls <= 1
    /\ (pc # "idle" /\ providerCalls = 1) => AllGatesPass
    /\ (/\ Handled
        /\ "code" \in DOMAIN response.body
        /\ \/ response.body.code \in {"VALIDATION_ERROR", "AUTH_ERROR"}
           \/ response.body.code = "MODEL_ERROR" /\ response.body.retryable = FALSE)
            => providerCalls = 0

\* the second request of the process passed every gate and was answered after
\* one provider call
C1_Witness ==
    /\ Handled
    /\ requestCount = 2
    /\ providerCalls = 1
    /\ response.status = 200

(* C2: the response is that of the earliest failing gate in the order provider
   credential, content type, body parse, API key, site URL, message, whatever
   the later gates would have said. *)
C2_EarliestFailingGateAnswers ==
    Handled =>
        /\ ~CredentialConfigured => response = ConfigErrorResponse(requestId)
        /\ (CredentialConfigured /\ ~ContentTypeIsJson)
              => response = ContentTypeResponse(requestId)
        /\ (CredentialConfigured /\ ContentTypeIsJson /\ ~BodyIsObject)
              => response = InvalidJsonResponse(requestId)
        /\ (CredentialConfigured /\ ContentTypeIsJson /\ BodyIsObject /\ ~KeyAccepted)
              => response = AuthResponse(requestId)
        /\ (/\ CredentialConfigured /\ ContentTypeIsJson /\ BodyIsObject /\ KeyAccepted
            /\ ~SiteUrlValid)
              => response = SiteUrlResponse(requestId)
        /\ (/\ CredentialConfigured /\ ContentTypeIsJson /\ BodyIsObject /\ KeyAccepted
            /\ SiteUrlValid /\ ~MessageIsString)
              => response = MessageTypeResponse(requestId)
        /\ (/\ CredentialConfigured /\ ContentTypeIsJson /\ BodyIsObject /\ KeyAccepted
            /\ SiteUrlValid /\ MessageIsString /\ ~MessageNonEmpty)
              => response = EmptyMessageResponse(requestId)

\* a request with a rejected key, an invalid site URL and no message got the
\* answer of the key gate
C2_Witness ==
    /\ Handled
    /\ CredentialConfigured /\ ContentTypeIsJson /\ BodyIsObject
    /\ ~KeyAccepted /\ ~SiteUrlValid /\ ~MessageIsString
    /\ response.status = 401
    /\ response.body.code = "AUTH_ERROR"

\* a request with nothing right but no provider credential configured either
C2_WitnessConfig ==
    /\ Handled
    /\ ~CredentialConfigured /\ ~ContentTypeIsJson /\ ~KeyAccepted
    /\ response.status = 503

SuppliedThreadId == Prop(request.body.object, "thread_id")

(* C3 as stated: a success response has the thread_id the request carried, and
   the requestId when it carried none. *)
C3_Original ==
    (Handled /\ response.status = 200) =>
        response.body.thread_id =
            IF IsUndefined(SuppliedThreadId) THEN randomUUID(requestCount)
            ELSE SuppliedThreadId.str

(* C3 amended: a success response has the thread_id the request carried when
   that is a non-empty string, and the requestId of the request when the
   thread_id is absent or the empty string. *)
C3_ThreadIdEchoedUnlessEmpty ==
    (Handled /\ response.status = 200) =>
        response.body.thread_id =
            IF IsUndefined(SuppliedThreadId) \/ SuppliedThreadId.str = ""
            THEN randomUUID(requestCount)
            ELSE SuppliedThreadId.str

\* a success response echoing the caller's thread id
C3_Witness ==
    /\ Handled /\ response.status = 200
    /\ ~IsUndefined(SuppliedThreadId)
    /\ response.body.thread_id = "thread-1"
    /\ response.body.thread_id # response.body.requestId

(* C4: every response the handler returns carries the requestId generated for
   that request, and every failure response carries a boolean retryable. *)
C4_RequestIdAndRetryable ==
    Handled =>
        /\ "requestId" \in DOMAIN response.body
        /\ response.body.requestId = randomUUID(requestCount)
        /\ response.status # 200 =>
              /\ "retryable" \in DOMAIN response.body
              /\ response.body.retryable \in BOOLEAN

\* the timeout answer of the second request carries the second requestId
C4_Witness ==
    /\ Handled
    /\ response.status = 504
    /\ response.body.requestId = "uuid-2"
    /\ response.body.retryable = TRUE

\* the messages meant for the caller
UserSafeMessages ==
    {ERROR_RESPONSES[c].userMessage : c \in ErrorCodes}
        \cup {"Service configuration error. Please contact support.",
              "Invalid site URL provided.", "Please enter a message."}

(* C5: every non-2xx response has error = true, code, retryable, requestId and
   duration, and its message is the user-safe message, not the internal
   diagnostic one. *)
C5_UniformErrorEnvelope ==
    (Handled /\ response.status \notin 200..299) =>
        /\ {"error", "code", "retryable", "requestId", "duration", "message"}
              \subseteq DOMAIN response.body
        /\ response.body.error = TRUE
        /\ response.body.message \in UserSafeMessages

(* C8: a request rejected by validateApiKey gets 401, AUTH_ERROR, retryable
   false and exactly one security log entry, written whatever LOG_LEVEL is; a
   request whose key is accepted, or that never reaches the key check, gets no
   security log entry. *)
ReachesKeyCheck == CredentialConfigured /\ ContentTypeIsJson /\ BodyIsObject

C8_AuthRejectionLogged ==
    /\ (Handled /\ ReachesKeyCheck /\ ~KeyAccepted) =>
          /\ response.status = 401
          /\ response.body.code = "AUTH_ERROR"
          /\ response.body.retryable = FALSE
          /\ Cardinality(SecurityEntries) = 1
          /\ \A i \in SecurityEntries : log[i].requestId = requestId
    /\ (pc # "idle" /\ (~ReachesKeyCheck \/ KeyAccepted)) => SecurityEntries = {}
    /\ (pc # "done") => SecurityEntries = {}

\* a rejection logged under LOG_LEVEL=security, where logger.error is silent
C8_Witness ==
    /\ Handled
    /\ IsSet("LOG_LEVEL") /\ env.LOG_LEVEL = "security"
    /\ response.status = 401
    /\ Cardinality(SecurityEntries) = 1
    /\ \A i \in 1..Len(log) : log[i].level # "error"

-----------------------------------------------------------------------------
(* C9: for every message shorter than the slice limit, applying sanitizeMessage
   to its own result gives that result again. *)
C9_IdempotentUnderLimit ==
    (/\ probe.fn = "sanitizeMessage"
     /\ Len(probe.arg) < SliceLimit
     /\ Len(probe.results) = 2)
        => probe.results[2] = probe.results[1]

\* a message under the limit that sanitizing changed, sanitized twice
C9_Witness ==
    /\ probe.fn = "sanitizeMessage"
    /\ Len(probe.arg) < SliceLimit
    /\ Len(probe.results) = 2
    /\ probe.results[1] # probe.arg
    /\ probe.results[1] # << >>

(* C10: sanitizeMessage trims first and truncates second: when the trimmed input
   is longer than the slice limit the result is its first SliceLimit characters,
   and otherwise the result is the whole trimmed input. *)
C10_TrimThenTruncate ==
    (probe.fn = "sanitizeMessage" /\ Len(probe.results) >= 1) =>
        \E i \in 0..Len(probe.arg) : \E j \in i..Len(probe.arg) :
            LET t == SubSeq(probe.arg, i + 1, j)
            IN  /\ IsTrimAt(probe.arg, i, j)
                /\ Len(t) > SliceLimit =>
                      /\ Len(probe.results[1]) = SliceLimit
                      /\ IsPrefixOf(probe.results[1], t)
                /\ Len(t) <= SliceLimit => probe.results[1] = t

\* a message of exactly the limit surrounded by white space is kept whole
C10_Witness ==
    /\ probe.fn = "sanitizeMessage"
    /\ Len(probe.results) >= 1
    /\ Len(probe.arg) = SliceLimit + 2
    /\ probe.arg[1] \in WhiteSpace
    /\ probe.arg[Len(probe.arg)] \in WhiteSpace
    /\ Len(probe.results[1]) = SliceLimit
    /\ probe.results[1] = SubSeq(probe.arg, 2, SliceLimit + 1)

\* a trimmed form over the limit is cut to its first SliceLimit characters
C10_WitnessTruncated ==
    /\ probe.fn = "sanitizeMessage"
    /\ Len(probe.results) >= 1
    /\ Len(trim(probe.arg)) > SliceLimit
    /\ Len(probe.arg) > Len(trim(probe.arg))
    /\ Len(probe.results[1]) = SliceLimit

(* C6: with authentication disabled (REQUIRE_API_KEY is "false") validateApiKey
   returns true for every presented key, null and empty included, whatever
   BUBBL_API_KEYS holds. *)
AuthDisabled == IsSet("REQUIRE_API_KEY") /\ env.REQUIRE_API_KEY = "false"

C6_DisabledAcceptsAll ==
    (probe.fn = "validateApiKey" /\ AuthDisabled /\ probe.results # << >>)
        => probe.results[1] = TRUE

\* a null key accepted with authentication disabled and no keys configured
C6_Witness ==
    /\ probe.fn = "validateApiKey"
    /\ AuthDisabled
    /\ ~IsSet("BUBBL_API_KEYS")
    /\ probe.arg = NullKey
    /\ probe.results = <<TRUE>>

(* C7: with authentication required validateApiKey returns true exactly when the
   key is present and equals, as a whole string, a configured key: a non-empty
   entry of BUBBL_API_KEYS with the white space around it removed.  So it is false
   for a null key and for every key when BUBBL_API_KEYS is unset or has no
   non-empty entry. *)
C7_ExactMatchOnly ==
    (probe.fn = "validateApiKey" /\ ~AuthDisabled /\ probe.results # << >>) =>
        probe.results[1] =
            (/\ probe.arg # NullKey
             /\ IsSet("BUBBL_API_KEYS")
             /\ probe.arg.str # << >>
             /\ \E e \in Entries(env.BUBBL_API_KEYS) : IsTrimOf(probe.arg.str, e))

\* a key accepted because it equals the second entry once that is trimmed
C7_Witness ==
    /\ probe.fn = "validateApiKey"
    /\ ~AuthDisabled
    /\ probe.results = <<TRUE>>
    /\ Len(split(env.BUBBL_API_KEYS, ",")) = 2
    /\ env.BUBBL_API_KEYS[Len(env.BUBBL_API_KEYS)] = " "

-----------------------------------------------------------------------------
(* validateSiteUrl called directly: what was supplied and what came back. *)

SiteUrlReturned ==
    /\ probe.fn \in {"validateSiteUrl", "validateSiteUrlSecondCopy"}
    /\ probe.results # << >>

\* the argument is a string, and one that is not empty
SuppliedString == "str" \in DOMAIN probe.arg
SuppliedNonEmpty == SuppliedString /\ probe.arg.str # << >>

\* the argument as new URL reads it
ParsedArgument == newURL(probe.arg.str)
ArgumentParses == ParsedArgument # UrlUnparsable
ArgumentIsHttp == ArgumentParses /\ ParsedArgument.protocol \in HttpProtocols

\* the forms of x with its surrounding white space removed
TrimmedForms(x) ==
    {SubSeq(x, ij[1] + 1, ij[2]) :
        ij \in {ij \in (0..Len(x)) \X (0..Len(x)) : ij[1] <= ij[2] /\ IsTrimAt(x, ij[1], ij[2])}}

\* the allowed domains: the entries of ALLOWED_SITE_DOMAINS, each trimmed
ConfiguredDomains ==
    UNION {TrimmedForms(e) : e \in Entries(env.ALLOWED_SITE_DOMAINS)}

\* hostname is the domain or ends with a dot followed by the domain
HostMatches(hostname, domain) ==
    \/ hostname = domain
    \/ /\ Len(hostname) > Len(domain)
       /\ hostname[Len(hostname) - Len(domain)] = "."
       /\ SubSeq(hostname, Len(hostname) - Len(domain) + 1, Len(hostname)) = domain

HasChar(s, c) == \E k \in 1..Len(s) : s[k] = c

(* C11 as stated: validateSiteUrl returns null for every input string that does
   not parse as a URL or whose scheme is not http or https, in every deployment
   mode and under every allow-list. *)
C11_Original ==
    (SiteUrlReturned /\ SuppliedString /\ ~ArgumentIsHttp) => IsNull(probe.results[1])

(* C11 amended: validateSiteUrl returns null for every non-empty input string
   that does not parse as a URL or whose scheme is not http or https, in every
   deployment mode and under every allow-list; the empty string is taken as an
   absent input and gives the default URL. *)
C11_NullUnlessHttp ==
    /\ (SiteUrlReturned /\ SuppliedNonEmpty /\ ~ArgumentIsHttp) => IsNull(probe.results[1])
    /\ (SiteUrlReturned /\ SuppliedString /\ ~SuppliedNonEmpty)
          => probe.results[1] = StrOf(defaultSiteUrl)

\* a URL of another scheme rejected outside production under a wildcard list
C11_Witness ==
    /\ SiteUrlReturned /\ probe.fn = "validateSiteUrl"
    /\ SuppliedNonEmpty
    /\ ArgumentParses /\ ParsedArgument.protocol = <<"j", "s", ":">>
    /\ ~InProduction
    /\ IsSet("ALLOWED_SITE_DOMAINS") /\ env.ALLOWED_SITE_DOMAINS = <<"*">>
    /\ IsNull(probe.results[1])

(* C12: in production with an allow-list configured that has no "*" entry, an
   http or https URL is accepted exactly when its hostname equals an allowed
   domain or ends with "." followed by one; every other hostname gives null. *)
C12_ExactOrSubdomainOnly ==
    (/\ SiteUrlReturned /\ SuppliedNonEmpty /\ ArgumentIsHttp
     /\ InProduction
     /\ IsSet("ALLOWED_SITE_DOMAINS")
     /\ <<"*">> \notin ConfiguredDomains)
        => (~IsNull(probe.results[1])
               <=> \E d \in ConfiguredDomains : HostMatches(ParsedArgument.hostname, d))

\* xb.io rejected against the allow-list "c.io, b.io"
C12_Witness ==
    /\ SiteUrlReturned /\ probe.fn = "validateSiteUrl"
    /\ SuppliedNonEmpty /\ ArgumentIsHttp
    /\ InProduction
    /\ IsSet("ALLOWED_SITE_DOMAINS") /\ Cardinality(ConfiguredDomains) = 2
    /\ <<"*">> \notin ConfiguredDomains
    /\ ParsedArgument.hostname = <<"x", "b", ".", "i", "o">>
    /\ IsNull(probe.results[1])

\* a.b.io accepted against the same list, through its second, trimmed entry
C12_WitnessSubdomain ==
    /\ SiteUrlReturned /\ probe.fn = "validateSiteUrl"
    /\ SuppliedNonEmpty /\ ArgumentIsHttp
    /\ InProduction
    /\ IsSet("ALLOWED_SITE_DOMAINS") /\ Cardinality(ConfiguredDomains) = 2
    /\ ParsedArgument.hostname = <<"a", ".", "b", ".", "i", "o">>
    /\ ~IsNull(probe.results[1])

(* C13: in production with ALLOWED_SITE_DOMAINS unset, validateSiteUrl returns
   null for every URL that is supplied. *)
C13_FailsClosedWithoutAllowList ==
    (/\ SiteUrlReturned /\ SuppliedNonEmpty
     /\ InProduction
     /\ ~IsSet("ALLOWED_SITE_DOMAINS"))
        => IsNull(probe.results[1])

(* C14: a non-null result for a supplied URL has no query string and no
   fragment: it is the scheme, "//", the hostname and the path of the URL (the
   path with or without its trailing slash), in every deployment mode and under
   every allow-list. *)
C14_NoQueryNoFragment ==
    (SiteUrlReturned /\ SuppliedNonEmpty /\ ~IsNull(probe.results[1])) =>
        LET u == ParsedArgument
            base == u.protocol \o <<"/", "/">> \o u.hostname
            r == probe.results[1].str
        IN  /\ ~HasChar(r, "?") /\ ~HasChar(r, "#")
            /\ \/ r = base \o u.pathname
               \/ /\ u.pathname[Len(u.pathname)] = "/"
                  /\ r = base \o SubSeq(u.pathname, 1, Len(u.pathname) - 1)

\* https://b.io/p?q#f accepted in production as https://b.io/p
C14_Witness ==
    /\ SiteUrlReturned /\ probe.fn = "validateSiteUrl"
    /\ InProduction
    /\ SuppliedNonEmpty
    /\ probe.arg.str = <<"h", "t", "t", "p", "s", ":", "/", "/", "b", ".", "i", "o",
                         "/", "p", "?", "q", "#", "f">>
    /\ probe.results[1] = StrOf(<<"h", "t", "t", "p", "s", ":", "/", "/", "b", ".", "i", "o",
                                  "/", "p">>)

(* C15: for every accepted URL the result is exactly protocol, "//", hostname
   and pathname of the parsed URL, so that the root path gives a result ending
   in "/" and any other path is returned unchanged. *)
C15_ProtocolHostnamePathname ==
    (SiteUrlReturned /\ SuppliedNonEmpty /\ ~IsNull(probe.results[1])) =>
        probe.results[1].str =
            ParsedArgument.protocol \o <<"/", "/">> \o ParsedArgument.hostname
                \o ParsedArgument.pathname

-----------------------------------------------------------------------------
(* The failures of the guarded provider call, stated on what was thrown. *)

RaceRejected ==
    /\ Handled
    /\ "settled" \in DOMAIN locals
    /\ locals.settled \in {"timer fired", "provider rejected"}

TimerFired == RaceRejected /\ locals.settled = "timer fired"
ProviderFailed == RaceRejected /\ locals.settled = "provider rejected"

\* the provider's error carries the rate limit status or a rate limit message
RateLimitSignal(error) ==
    \/ "status" \in DOMAIN error /\ error.status = 429
    \/ /\ "message" \in DOMAIN error
       /\ error.message \in {"rate limit exceeded", "rate limit reached for the model"}

\* the provider's error speaks of the model
ModelFault(error) ==
    /\ "message" \in DOMAIN error
    /\ error.message \in {"The model does not exist", "rate limit reached for the model",
                          "The model is overloaded"}

\* the provider's error carries the very message of the handler's timer
SaysRequestTimeout(error) ==
    "message" \in DOMAIN error /\ error.message = "Request timeout"

Classified(code, status) ==
    /\ response.status = status
    /\ response.body.code = code
    /\ response.body.retryable = TRUE

(* C16: a failed provider call is answered by kind: the timer fired gives
   TIMEOUT, 504; a rate limit signal of the provider (status 429 or a rate limit
   message) gives RATE_LIMIT, 429; failing that a model fault gives MODEL_ERROR,
   503; every other failure gives UNKNOWN, 500; each of them retryable, and one
   kind for each failure. *)
C16_FailureClassification ==
    /\ TimerFired => Classified("TIMEOUT", 504)
    /\ (ProviderFailed /\ ~SaysRequestTimeout(locals.error)) =>
          IF RateLimitSignal(locals.error) THEN Classified("RATE_LIMIT", 429)
          ELSE IF ModelFault(locals.error) THEN Classified("MODEL_ERROR", 503)
          ELSE Classified("UNKNOWN", 500)
    /\ RaceRejected =>
          <<response.body.code, response.status>> \in
              {<<"TIMEOUT", 504>>, <<"RATE_LIMIT", 429>>, <<"MODEL_ERROR", 503>>,
               <<"UNKNOWN", 500>>}

\* a provider error that is a rate limit signal and speaks of the model
C16_Witness ==
    /\ ProviderFailed
    /\ RateLimitSignal(locals.error) /\ ModelFault(locals.error)
    /\ Classified("RATE_LIMIT", 429)

\* an error without a message or a status answered as UNKNOWN
C16_WitnessUnknown ==
    /\ ProviderFailed
    /\ locals.error = [status |-> 500]
    /\ Classified("UNKNOWN", 500)

-----------------------------------------------------------------------------
TimeoutFailure(r) ==
    /\ IsResponse(r)
    /\ r.status = 504
    /\ r.body.code = "TIMEOUT"

\* the handler's variables for the request in flight
RequestState == <<pc, request, requestId, requestCount, locals, providerCalls, response, log>>

(* C17: a request that reached the call of generateText gets one response.  The
   step that ends the wait produces it; when that step is the timer's, it is the
   timeout failure; once it is produced nothing changes it until it has gone out,
   whatever settles afterwards; and a timer or a provider call of another request
   that settles changes nothing of the request in flight. *)
C17_RaceSettlesOnce ==
    [][/\ (pc = "racing" /\ {Timer(requestId), ProviderCall(requestId)} \subseteq inFlight') =>
            RequestState' = RequestState
       /\ (pc = "racing" /\ Timer(requestId) \notin inFlight') =>
            /\ pc' = "done"
            /\ TimeoutFailure(response')
            /\ ProviderCall(requestId) \in inFlight'
       /\ (pc = "racing" /\ ProviderCall(requestId) \notin inFlight') =>
            /\ pc' = "done"
            /\ response' # NoResponse
            /\ locals'.settled \in {"provider resolved", "provider rejected"}
            /\ locals'.settled = "provider resolved" => response'.status = 200
            /\ Timer(requestId) \in inFlight'
       /\ pc = "done" =>
            \/ pc' = "idle"
            \/ RequestState' = RequestState
       /\ \A c \in inFlight \ inFlight' :
            c.id # requestId => RequestState' = RequestState
      ]_vars

\* the timer fired first, the provider settled afterwards, and the response is
\* still the timeout failure
C17_Witness ==
    /\ TimerFired
    /\ ProviderCall(requestId) \notin inFlight
    /\ TimeoutFailure(response)

\* the provider resolved first and the timer fired afterwards
C17_WitnessLateTimer ==
    /\ Handled
    /\ "settled" \in DOMAIN locals /\ locals.settled = "provider resolved"
    /\ Timer(requestId) \notin inFlight
    /\ response.status = 200

\* the second request waits on its race while the first one's provider call,
\* given up by the timer, has not settled
C17_WitnessOtherRequest ==
    /\ pc = "racing"
    /\ requestId = "uuid-2"
    /\ inFlight = {ProviderCall("uuid-1"), Timer("uuid-2"), ProviderCall("uuid-2")}

-----------------------------------------------------------------------------
InDevelopment == IsSet("NODE_ENV") /\ env.NODE_ENV = "development"

\* the message strings written into the handler
FixedMessages ==
    UserSafeMessages \cup {ERROR_RESPONSES[c].message : c \in ErrorCodes}
        \cup {"Invalid JSON payload"}

\* the properties of a response body that hold text
TextProperties == {"message", "userMessage", "code", "requestId", "details"}

(* C18: outside development mode no response carries the text of the upstream
   error: details is absent, and the message of a failure response is one of
   the strings written into the handler, whatever the provider failed with;
   details is present in development mode only. *)
C18_NoUpstreamTextOutsideDevelopment ==
    Handled =>
        /\ "details" \in DOMAIN response.body => InDevelopment
        /\ (~InDevelopment /\ response.status # 200) =>
              /\ response.body.message \in FixedMessages
              /\ RaceRejected =>
                    /\ response.body.message \in
                          {ERROR_RESPONSES[c].userMessage :
                              c \in {"TIMEOUT", "RATE_LIMIT", "MODEL_ERROR", "UNKNOWN"}}
                    /\ \A f \in TextProperties \cap DOMAIN response.body :
                          "message" \in DOMAIN locals.error
                              => response.body[f] # locals.error.message

\* with NODE_ENV unset the provider failed with a message of its own and the
\* response has no details
C18_Witness ==
    /\ ProviderFailed
    /\ ~IsSet("NODE_ENV")
    /\ locals.error = [message |-> "socket hang up"]
    /\ "details" \notin DOMAIN response.body
    /\ response.body.message = ERROR_RESPONSES.UNKNOWN.userMessage

\* in development mode the same failure is answered with details
C18_WitnessDevelopment ==
    /\ ProviderFailed
    /\ InDevelopment
    /\ "details" \in DOMAIN response.body
    /\ response.body.details = "socket hang up"

-----------------------------------------------------------------------------
(* What validateApiKey and validateSiteUrl answer under a given environment e,
   stated on e itself. *)

DomainsOf(list) == UNION {TrimmedForms(x) : x \in Entries(list)}

KeyAcceptedUnder(e, key) ==
    \/ "REQUIRE_API_KEY" \in DOMAIN e /\ e.REQUIRE_API_KEY = "false"
    \/ /\ key # NullKey
       /\ key.str # << >>
       /\ "BUBBL_API_KEYS" \in DOMAIN e
       /\ \E entry \in Entries(e.BUBBL_API_KEYS) : IsTrimOf(key.str, entry)

\* for an https URL that parses
UrlAcceptedUnder(e, href) ==
    \/ ~("NODE_ENV" \in DOMAIN e /\ e.NODE_ENV = "production")
    \/ "ALLOWED_SITE_DOMAINS" \notin DOMAIN e
    \/ <<"*">> \in DomainsOf(e.ALLOWED_SITE_DOMAINS)
    \/ \E d \in DomainsOf(e.ALLOWED_SITE_DOMAINS) : HostMatches(newURL(href).hostname, d)

\* the last call answered as it would be answered under environment e
AnsweredAsUnder(e) ==
    /\ probe.lastCall.fn = "validateApiKey"
          => probe.lastCall.result = KeyAcceptedUnder(e, probe.lastCall.arg)
    /\ probe.lastCall.fn = "validateSiteUrl"
          => ~IsNull(probe.lastCall.result) = UrlAcceptedUnder(e, probe.lastCall.arg)

CallMade == probe.fn = "process" /\ probe.lastCall # NoCall

(* C19 as stated: the key list, the authentication flag and the domain list
   are fixed when the process starts: every later call of validateApiKey and
   validateSiteUrl answers as under the environment of the start, whatever the
   environment has become. *)
C19_Original == CallMade => AnsweredAsUnder(probe.startup)

(* C19 amended: the key list, the authentication flag and the domain list are
   read from the environment at each call: a call of validateApiKey or
   validateSiteUrl answers as under the environment at the time of the call, so
   as under the environment of the start when nothing was changed, and a change
   made after the start holds for every later call. *)
C19_ReadAtEachCall ==
    CallMade =>
        /\ AnsweredAsUnder(probe.lastCall.env)
        /\ probe.lastCall.env = probe.startup => AnsweredAsUnder(probe.startup)

\* BUBBL_API_KEYS was set after the start and the key it names is accepted
C19_Witness ==
    /\ CallMade
    /\ "BUBBL_API_KEYS" \notin DOMAIN probe.startup
    /\ "REQUIRE_API_KEY" \notin DOMAIN probe.startup
    /\ probe.lastCall.fn = "validateApiKey"
    /\ probe.lastCall.env # probe.startup
    /\ probe.lastCall.arg = KeyOf(<<"a">>)
    /\ probe.lastCall.result = TRUE

\* ALLOWED_SITE_DOMAINS was changed after the start and a URL of the domain it
\* named at the start is rejected
C19_WitnessSiteUrl ==
    /\ CallMade
    /\ "ALLOWED_SITE_DOMAINS" \in DOMAIN probe.startup
    /\ probe.startup.ALLOWED_SITE_DOMAINS = <<"b", ".", "i", "o">>
    /\ probe.lastCall.fn = "validateSiteUrl"
    /\ newURL(probe.lastCall.arg).hostname = <<"b", ".", "i", "o">>
    /\ IsNull(probe.lastCall.result)

-----------------------------------------------------------------------------
\* the request-completion records written for the request in flight
CompletionRecords == {i \in 1..Len(log) : log[i].message = "Request completed"}

(* C20: every request to POST /api/chat has, when its response is returned,
   exactly one 'Request completed' record written by logRequestMetrics, on every
   exit path. *)
C20_OneCompletionRecord ==
    Handled => Cardinality(CompletionRecords) = 1


-----------------------------------------------------------------------------
(* Prompt assembly (C21, C22, C24), over SpecPrompt. *)

Assembled == probe.fn = "conversationMessages" /\ probe.results # << >>
AssembledList == probe.results[1]

\* an entry the specification keeps: role user or assistant and string content
WellFormedEntry(m) ==
    /\ m # Null
    /\ m.role \in {"user", "assistant"}
    /\ DOMAIN m.content = {"str"}

FilteredHistory ==
    IF DOMAIN probe.messages = {"array"}
    THEN SelectSeq(probe.messages.array, WellFormedEntry)
    ELSE << >>

\* the entries between the system message and the new user message
RetainedWindow == SubSeq(AssembledList, 2, Len(AssembledList) - 1)

IsLastOf(window, list, k) ==
    /\ Len(window) = Min(k, Len(list))
    /\ \A i \in 1 .. Len(window) : window[i] = list[Len(list) - Len(window) + i]

\* C21: for every history and every contextMessages value of 0 or more the list
\* passed to the provider is one system message, then at most contextMessages
\* entries that are the last entries of the filtered history in their order,
\* then the sanitized new message as a user message; no entry after the first
\* has the system role.
C21_SystemWindowUser ==
    Assembled =>
        /\ Len(AssembledList) >= 2
        /\ AssembledList[1] = [role |-> "system", content |-> systemPrompt(PromptSiteUrl)]
        /\ AssembledList[Len(AssembledList)] = [role |-> "user", content |-> StrOf(probe.message)]
        /\ Len(RetainedWindow) <= probe.contextMessages
        /\ IsLastOf(RetainedWindow, FilteredHistory, probe.contextMessages)
        /\ \A i \in 2 .. Len(AssembledList) : AssembledList[i].role # "system"

\* C22: entries that are null, have a role other than user or assistant, or have
\* non-string content are removed before the window is taken: for a
\* contextMessages of 1 or more the retained window is the last contextMessages
\* entries of the filtered history, and every history, however malformed, gives
\* a message list.
C22_FilterBeforeWindow ==
    /\ Assembled /\ probe.contextMessages >= 1 =>
            IsLastOf(RetainedWindow, FilteredHistory, probe.contextMessages)
    /\ Assembled =>
            /\ AssembledList[1].role = "system"
            /\ AssembledList[Len(AssembledList)] = [role |-> "user", content |-> StrOf(probe.message)]

\* five valid entries among eight, the window of five keeps all of them although
\* two invalid entries are among the last five
C22_Witness ==
    /\ Assembled
    /\ DOMAIN probe.messages = {"array"}
    /\ probe.contextMessages = contextMessages
    /\ Len(probe.messages.array) = 8
    /\ Len(FilteredHistory) = 5
    /\ RetainedWindow = FilteredHistory
    /\ \E i \in 4 .. 8 : ~WellFormedEntry(probe.messages.array[i])

\* eight prior turns under the shipped contextMessages: seven entries, the five
\* most recent turns retained
C22_WitnessEightTurns ==
    /\ Assembled
    /\ DOMAIN probe.messages = {"array"}
    /\ probe.contextMessages = 5
    /\ Len(FilteredHistory) = 8
    /\ Len(AssembledList) = 7
    /\ RetainedWindow = SubSeq(probe.messages.array, 4, 8)

\* C24: in every list passed to the provider every role is system, user or
\* assistant, and every entry with role user has content that is non-empty after
\* trimming, history entries included.
C24_UserContentNonEmpty ==
    Assembled =>
        \A i \in 1 .. Len(AssembledList) :
            /\ AssembledList[i].role \in {"system", "user", "assistant"}
            /\ AssembledList[i].role = "user" => trim(AssembledList[i].content.str) # << >>

-----------------------------------------------------------------------------
(* Failures of POST /api/chat at the handler's boundary (C23, C26), over Spec. *)

\* C23: no failure escapes POST /api/chat: whatever the body parsing, the
\* validation or the provider call raises, a rejection with null included, the
\* finished request has a response, and a response that is not the success
\* carries the message, code, retryable and requestId of the error envelope.
C23_NoFailureEscapes ==
    pc = "done" =>
        /\ IsResponse(response)
        /\ response.status # 200 =>
              {"message", "code", "retryable", "requestId"} \subseteq DOMAIN response.body

\* C26: a response has code TIMEOUT or status 504 only if the handler's own timer
\* ended the wait; a failure the provider reported is never answered as TIMEOUT.
C26_TimeoutOnlyFromTimer ==
    (/\ Handled
     /\ \/ response.status = 504
        \/ "code" \in DOMAIN response.body /\ response.body.code = "TIMEOUT") =>
        /\ "settled" \in DOMAIN locals
        /\ locals.settled = "timer fired"

-----------------------------------------------------------------------------
(* White space left by sanitizeMessage (C28), over SpecSanitize. *)

Sanitized == probe.fn = "sanitizeMessage" /\ Len(probe.results) >= 1

\* the trimmed argument is longer than the limit and has white space at the
\* last position the truncation keeps
CutAtWhiteSpace ==
    \E i \in 0..Len(probe.arg) : \E j \in i..Len(probe.arg) :
        /\ IsTrimAt(probe.arg, i, j)
        /\ j - i > SliceLimit
        /\ probe.arg[i + SliceLimit] \in WhiteSpace

NoLeadingWhiteSpace(r) == r # << >> => r[1] \notin WhiteSpace
NoTrailingWhiteSpace(r) == r # << >> => r[Len(r)] \notin WhiteSpace

\* C28 as stated: for every input the result of sanitizeMessage has no leading
\* and no trailing white space, and sanitizeMessage applied to it gives it back.
C28_Original ==
    Sanitized =>
        /\ NoLeadingWhiteSpace(probe.results[1])
        /\ NoTrailingWhiteSpace(probe.results[1])
        /\ Len(probe.results) = 2 => probe.results[2] = probe.results[1]

\* C28: for every input the result of sanitizeMessage has no leading white
\* space; unless the trimmed input is longer than the limit with white space at
\* the truncation point, it has no trailing white space either and
\* sanitizeMessage gives it back unchanged; in that one case the result ends in
\* white space and a second application shortens it.
C28_TrimmedUnlessCutAtWhiteSpace ==
    Sanitized =>
        /\ NoLeadingWhiteSpace(probe.results[1])
        /\ ~CutAtWhiteSpace =>
              /\ NoTrailingWhiteSpace(probe.results[1])
              /\ Len(probe.results) = 2 => probe.results[2] = probe.results[1]
        /\ CutAtWhiteSpace =>
              /\ Len(probe.results[1]) = SliceLimit
              /\ probe.results[1][SliceLimit] \in WhiteSpace
              /\ Len(probe.results) = 2 => Len(probe.results[2]) < SliceLimit

\* an input over the limit cut at a character that is not white space,
\* sanitized twice
C28_Witness ==
    /\ Sanitized
    /\ Len(probe.results) = 2
    /\ Len(probe.arg) > SliceLimit + 1
    /\ probe.arg[1] \in WhiteSpace
    /\ probe.arg[SliceLimit + 1] \notin WhiteSpace
    /\ ~CutAtWhiteSpace
    /\ Len(probe.results[1]) = SliceLimit
    /\ probe.results[2] = probe.results[1]

\* an input over the limit cut at white space, sanitized twice
C28_WitnessCutAtWhiteSpace ==
    /\ Sanitized
    /\ Len(probe.results) = 2
    /\ CutAtWhiteSpace
    /\ probe.results[2] # probe.results[1]

-----------------------------------------------------------------------------
(* GET /api/chat, the health check, next to the decision POST /api/chat takes
   for a request without an X-API-Key header, under every environment of the
   validateApiKey probe. *)

\* route.ts lines 319-331
GET ==
    Respond(200, [service |-> "Bubbl Chatbot API",
                  status |-> "active",
                  version |-> "2.0.0",
                  authRequired |-> FALSE,
                  endpoints |-> [chat |-> "POST /api/chat", health |-> "GET /api/chat"],
                  documentation |-> "See README.md for API documentation"])

InitHealth ==
    /\ env \in AuthEnvs
    /\ HandlerIdle
    /\ probe = [fn |-> "GET", health |-> << >>, keyless |-> << >>]

CallGET ==
    /\ probe.fn = "GET"
    /\ probe.health = << >>
    /\ probe' = [probe EXCEPT !.health = <<GET>>]
    /\ UNCHANGED <<env, handlerVars>>

\* route.ts lines 139-140: validateApiKey(request.headers.get('X-API-Key')) without the header
CallValidateApiKeyWithoutKey ==
    /\ probe.fn = "GET"
    /\ probe.keyless = << >>
    /\ probe' = [probe EXCEPT !.keyless = <<validateApiKey(NullKey)>>]
    /\ UNCHANGED <<env, handlerVars>>

NextHealth == CallGET \/ CallValidateApiKeyWithoutKey

SpecHealth == InitHealth /\ [][NextHealth]_vars

\* C29: the authRequired field of the health response is true exactly when
\* validateApiKey rejects a request without a key.
C29_AuthRequiredIsEnforcement ==
    (probe.fn = "GET" /\ probe.health # << >> /\ probe.keyless # << >>) =>
        probe.health[1].body.authRequired = ~probe.keyless[1]

-----------------------------------------------------------------------------
(* The two other chat handlers of the repository: the session-gated converse
   POST (route.ts lines 389-548) and handleChatRequest (BubblChatbot.tsx lines
   477-597).  Each is followed from its entry to its response: through the
   session check (converse only), the content type, the body and the message,
   and then the race of generateText against the 25 s timer. *)

ChatHandlers == {"converse", "handleChatRequest"}

\* session?.user
Sessions == {Null, [user |-> "u1"]}

\* what generateText may reject with in these handlers: the errors above and
\* the provider's own authentication failures
UpstreamErrors ==
    ProviderErrors \cup {[message |-> "Incorrect API key provided", status |-> 401],
                         [message |-> "Incorrect API key provided"],
                         [status |-> 401]}

HandlerBodies ==
    {BodyUnparsable, Null} \cup
    {BodyObject(Merge(m, h)) :
        m \in {NoProps} \cup {[message |-> v] :
                v \in {NumberOf(42), StrOf(<< >>), StrOf(<<" ">>), StrOf(<<" ", "a", "b", " ">>)}},
        h \in {NoProps} \cup {[messages |-> v] : v \in Histories}}

HandlerRequests ==
    [contentType : {"<null>", "text/plain", "application/json"},
     body : HandlerBodies]

\* converse, lines 396-402
SessionResponse(id) ==
    Respond(401, Merge(Merge(ERROR_RESPONSES.AUTH_ERROR,
                             [userMessage |-> "Please log in to use the chat."]),
                       [requestId |-> id]))

\* converse lines 404-441, handleChatRequest lines 482-522: the exits before the
\* provider is called; both handlers return the same bodies
validationExit(req, id) ==
    LET body == parsedBody(req)
        message == Prop(body.object, "message")
    IN  IF ~includesJson(req.contentType) THEN ContentTypeResponse(id)
        ELSE IF IsNull(body) THEN InvalidJsonResponse(id)
        ELSE IF messageRejected(message) THEN MessageTypeResponse(id)
        ELSE IF sliceTo(trim(message.str), SliceLimit) = << >> THEN EmptyMessageResponse(id)
        ELSE NoResponseYet

\* converse lines 393-441
converseEntry(session, req, id) ==
    IF IsNull(session) THEN SessionResponse(id) ELSE validationExit(req, id)

\* handleChatRequest lines 482-522
handleChatRequestEntry(req, id) == validationExit(req, id)

\* converse lines 524-538
converseClassify(error) ==
    IF messageOf(error) = "Request timeout"
    THEN [apiError |-> ERROR_RESPONSES.TIMEOUT, statusCode |-> 504]
    ELSE IF \/ messageIncludes(messageOf(error), "rate limit")
            \/ (~IsNull(error) /\ "status" \in DOMAIN error /\ error.status = 429)
    THEN [apiError |-> ERROR_RESPONSES.RATE_LIMIT, statusCode |-> 429]
    ELSE IF \/ messageIncludes(messageOf(error), "API key")
            \/ (~IsNull(error) /\ "status" \in DOMAIN error /\ error.status = 401)
    THEN [apiError |-> ERROR_RESPONSES.AUTH_ERROR, statusCode |-> 500]
    ELSE IF messageIncludes(messageOf(error), "model")
    THEN [apiError |-> ERROR_RESPONSES.MODEL_ERROR, statusCode |-> 503]
    ELSE [apiError |-> ERROR_RESPONSES.UNKNOWN, statusCode |-> 500]

\* converse lines 540-548, handleChatRequest lines 587-595: error.message is read
\* for details in development only, where a null error makes the read throw
catchResponse(c, error, id) ==
    IF IsNull(error) /\ InDevelopment THEN Thrown("TypeError")
    ELSE Respond(c.statusCode,
                 Merge([message |-> c.apiError.userMessage,
                        error |-> TRUE,
                        code |-> c.apiError.code,
                        retryable |-> c.apiError.retryable,
                        requestId |-> id,
                        duration |-> "ms"],
                       IF InDevelopment /\ "message" \in DOMAIN error
                       THEN [details |-> error.message] ELSE NoProps))

\* the catch block of either handler
handlerCatch(handler, error, id) ==
    catchResponse(IF handler = "converse" THEN converseClassify(error) ELSE classify(error),
                  error, id)

\* converse lines 508-515, handleChatRequest lines 555-566
handlerSuccess(result, id) ==
    Respond(200, [message |-> IF result.text = "" THEN FallbackText ELSE result.text,
                  timestamp |-> "toISOString",
                  success |-> TRUE,
                  requestId |-> id,
                  duration |-> "ms"])

InitHandlers ==
    /\ env \in {NoProps, [NODE_ENV |-> "development"], [NODE_ENV |-> "production"]}
    /\ HandlerIdle
    /\ probe \in {[fn |-> "chat handler", handler |-> h, session |-> s, request |-> r,
                   requestId |-> randomUUID(1), at |-> "entry", settled |-> "no",
                   response |-> NoResponseYet] :
                    h \in ChatHandlers, s \in Sessions, r \in HandlerRequests}

\* from the entry of the handler to a validation exit or to the await of the race
Handler_Entry ==
    /\ probe.fn = "chat handler"
    /\ probe.at = "entry"
    /\ LET resp == IF probe.handler = "converse"
                   THEN converseEntry(probe.session, probe.request, probe.requestId)
                   ELSE handleChatRequestEntry(probe.request, probe.requestId)
       IN  probe' = [probe EXCEPT !.at = IF resp = NoResponseYet THEN "racing" ELSE "done",
                                  !.response = resp]
    /\ UNCHANGED <<env, handlerVars>>

\* generateText resolved before the timer fired
Handler_ProviderResolves ==
    /\ probe.fn = "chat handler"
    /\ probe.at = "racing"
    /\ \E result \in ProviderResults :
          probe' = [probe EXCEPT !.at = "done", !.settled = "provider resolved",
                                 !.response = handlerSuccess(result, probe.requestId)]
    /\ UNCHANGED <<env, handlerVars>>

\* generateText rejected before the timer fired
Handler_ProviderRejects ==
    /\ probe.fn = "chat handler"
    /\ probe.at = "racing"
    /\ \E error \in UpstreamErrors :
          probe' = [probe EXCEPT !.at = "done", !.settled = "provider rejected",
                                 !.response = handlerCatch(probe.handler, error, probe.requestId)]
    /\ UNCHANGED <<env, handlerVars>>

\* the 25 s timer fired before generateText settled
Handler_TimerFires ==
    /\ probe.fn = "chat handler"
    /\ probe.at = "racing"
    /\ probe' = [probe EXCEPT !.at = "done", !.settled = "timer fired",
                              !.response = handlerCatch(probe.handler, TimeoutError, probe.requestId)]
    /\ UNCHANGED <<env, handlerVars>>

NextHandlers ==
    \/ Handler_Entry
    \/ Handler_ProviderResolves
    \/ Handler_ProviderRejects
    \/ Handler_TimerFires

SpecHandlers == InitHandlers /\ [][NextHandlers]_vars

\* the status each code of ERROR_RESPONSES is to be answered with
StatusOfCode ==
    [VALIDATION_ERROR |-> 400, AUTH_ERROR |-> 401, RATE_LIMIT |-> 429,
     MODEL_ERROR |-> 503, TIMEOUT |-> 504, UNKNOWN |-> 500]

\* C27: in the converse POST and in handleChatRequest the status of an error
\* response is a function of its code: VALIDATION_ERROR 400, AUTH_ERROR 401,
\* RATE_LIMIT 429, MODEL_ERROR 503, TIMEOUT 504, UNKNOWN 500.
C27_StatusIsFunctionOfCode ==
    (/\ probe.fn = "chat handler"
     /\ probe.at = "done"
     /\ IsResponse(probe.response)
     /\ "code" \in DOMAIN probe.response.body) =>
        probe.response.status = StatusOfCode[probe.response.body.code]

-----------------------------------------------------------------------------
(* The chat widget (BubblChatbot.tsx): one mounted instance with its React
   state (isLoading, retryCount, connectionStatus, messages), its
   abortControllerRef, and the handleSubmit calls it has started, each with its
   fetchWithRetry in progress.  Every AbortController ever created keeps an
   entry in aborts that tells whether and by what it was aborted.  A state
   update after the unmount is dropped, as React drops it.  The text of an
   error message, which getErrorType picks from ERROR_MESSAGES, is left opaque;
   each message carries in "of" the submission it belongs to, a reply the
   controller of the fetch that brought it. *)

MAX_RETRIES == 2

ResponseStatuses == {200, 429, 500}

\* AbortController.abort(): no effect on a missing or already aborted controller
abort(w, c, cause) ==
    IF c = 0 \/ w.aborts[c] # "no" THEN w ELSE [w EXCEPT !.aborts[c] = cause]

\* fetchWithRetry lines 125-136 with the held controller left as it is
fetchWithRetry_NoAbort(w, k, retries, cause) ==
    [w EXCEPT !.created = w.created + 1,
              !.held = w.created + 1,
              !.aborts = Append(w.aborts, "no"),
              !.calls[k] = [at |-> "fetching", retries |-> retries,
                            signal |-> w.created + 1, timer |-> TRUE,
                            status |-> 0, after |-> "none"],
              !.starts = Append(w.starts, [submission |-> k, cause |-> cause])]

\* fetchWithRetry lines 125-136: abort the held controller, hold a new one, arm
\* the 30 s timer, start the fetch
fetchWithRetry(w, k, retries, cause) ==
    LET a == abort(w, w.held, "next fetch")
    IN  [a EXCEPT !.created = a.created + 1,
                  !.held = a.created + 1,
                  !.aborts = Append(a.aborts, "no"),
                  !.calls[k] = [at |-> "fetching", retries |-> retries,
                                signal |-> a.created + 1, timer |-> TRUE,
                                status |-> 0, after |-> "none"],
                  !.starts = Append(a.starts, [submission |-> k, cause |-> cause])]

\* handleSubmit lines 229-244: the catch block and the finally block
submitFails(w, k) ==
    IF w.mounted
    THEN [w EXCEPT !.connectionStatus = "error",
                   !.messages = Append(w.messages, [role |-> "assistant", isError |-> TRUE,
                                                    content |-> "ERROR_MESSAGES[errorType]", of |-> k]),
                   !.isLoading = FALSE,
                   !.retryCount = 0,
                   !.calls[k].at = "returned"]
    ELSE [w EXCEPT !.calls[k].at = "returned"]

\* handleSubmit lines 219-227 and 241-244: the reply is appended
submitSucceeds(w, k) ==
    IF w.mounted
    THEN [w EXCEPT !.connectionStatus = "online",
                   !.messages = Append(w.messages, [role |-> "assistant", isError |-> FALSE,
                                                    content |-> "data.message", of |-> w.calls[k].signal]),
                   !.isLoading = FALSE,
                   !.retryCount = 0,
                   !.calls[k].at = "returned"]
    ELSE [w EXCEPT !.calls[k].at = "returned"]

NoCallYet == [at |-> "entered", retries |-> MAX_RETRIES, signal |-> 0, timer |-> FALSE,
              status |-> 0, after |-> "none"]

InitWidget ==
    /\ env = NoProps
    /\ HandlerIdle
    /\ probe \in {[fn |-> "BubblChatbot", mounted |-> TRUE,
                   connectionStatus |-> IF o THEN "online" ELSE "offline",
                   isLoading |-> FALSE, retryCount |-> 0,
                   created |-> 0, held |-> 0, aborts |-> << >>,
                   calls |-> << >>, messages |-> << >>, starts |-> << >>] :
                    o \in BOOLEAN}

\* lines 160-211: a submission with a non-empty input, up to the await of fetch
handleSubmit ==
    /\ probe.fn = "BubblChatbot"
    /\ probe.mounted
    /\ Len(probe.calls) < MaxSubmissions
    /\ ~probe.isLoading
    /\ IF probe.connectionStatus = "offline"
       THEN probe' = [probe EXCEPT
                        !.messages = Append(@, [role |-> "assistant", isError |-> TRUE,
                                                content |-> "ERROR_MESSAGES.network",
                                                of |-> Len(probe.calls) + 1]),
                        !.calls = Append(@, [NoCallYet EXCEPT !.at = "returned"])]
       ELSE LET k == Len(probe.calls) + 1
                w == [probe EXCEPT !.messages = Append(@, [role |-> "user", isError |-> FALSE,
                                                           content |-> "input", of |-> k]),
                                   !.isLoading = TRUE,
                                   !.connectionStatus = "online",
                                   !.calls = Append(@, NoCallYet)]
            IN  probe' = fetchWithRetry(w, k, MAX_RETRIES, "submission")
    /\ UNCHANGED <<env, handlerVars>>

\* lines 133-146: the fetch resolved with a response
FetchResolves ==
    /\ probe.fn = "BubblChatbot"
    /\ \E k \in 1..Len(probe.calls) : \E status \in ResponseStatuses :
          LET call == probe.calls[k]
          IN  /\ call.at = "fetching"
              /\ probe.aborts[call.signal] = "no"
              /\ IF status >= 500 /\ call.retries > 0
                 THEN probe' = [probe EXCEPT !.calls[k].timer = FALSE,
                                             !.calls[k].at = "delay",
                                             !.calls[k].after = "server error"]
                 ELSE probe' = [probe EXCEPT !.calls[k].timer = FALSE,
                                             !.calls[k].at = "reading",
                                             !.calls[k].status = status,
                                             !.retryCount = IF probe.mounted THEN 0 ELSE @]
    /\ UNCHANGED <<env, handlerVars>>

\* lines 147-157 on an aborted signal: the fetch rejected with an AbortError
FetchAborted ==
    /\ probe.fn = "BubblChatbot"
    /\ \E k \in 1..Len(probe.calls) :
          LET call == probe.calls[k]
          IN  /\ call.at = "fetching"
              /\ probe.aborts[call.signal] # "no"
              /\ IF call.retries > 0
                 THEN probe' = [probe EXCEPT !.calls[k].timer = FALSE,
                                             !.calls[k].at = "delay",
                                             !.calls[k].after = probe.aborts[call.signal]]
                 ELSE probe' = submitFails([probe EXCEPT !.calls[k].timer = FALSE], k)
    /\ UNCHANGED <<env, handlerVars>>

\* lines 147-157 on a network failure: the fetch rejected with a TypeError
FetchFails ==
    /\ probe.fn = "BubblChatbot"
    /\ \E k \in 1..Len(probe.calls) :
          LET call == probe.calls[k]
          IN  /\ call.at = "fetching"
              /\ probe.aborts[call.signal] = "no"
              /\ probe' = submitFails([probe EXCEPT !.calls[k].timer = FALSE], k)
    /\ UNCHANGED <<env, handlerVars>>

\* lines 128-130: the 30 s timer of a fetch fired; it aborts the controller the
\* ref holds at that moment
RequestTimeout ==
    /\ probe.fn = "BubblChatbot"
    /\ \E k \in 1..Len(probe.calls) :
          /\ probe.calls[k].timer
          /\ probe' = [abort(probe, probe.held, "timeout") EXCEPT !.calls[k].timer = FALSE]
    /\ UNCHANGED <<env, handlerVars>>

\* lines 140-142 and 151-153: the retry delay passed
RetryDelayElapsed ==
    /\ probe.fn = "BubblChatbot"
    /\ \E k \in 1..Len(probe.calls) :
          LET call == probe.calls[k]
              w == [probe EXCEPT !.retryCount = IF probe.mounted THEN @ + 1 ELSE @]
          IN  /\ call.at = "delay"
              /\ probe' = fetchWithRetry(w, k, call.retries - 1, call.after)
    /\ UNCHANGED <<env, handlerVars>>

\* lines 211-227: the body of the response was read
BodyRead ==
    /\ probe.fn = "BubblChatbot"
    /\ \E k \in 1..Len(probe.calls) : \E dataError \in BOOLEAN :
          LET call == probe.calls[k]
          IN  /\ call.at = "reading"
              /\ probe.aborts[call.signal] = "no"
              /\ probe' = IF call.status # 200 \/ dataError
                          THEN submitFails(probe, k)
                          ELSE submitSucceeds(probe, k)
    /\ UNCHANGED <<env, handlerVars>>

\* lines 211-216: the signal was aborted before the body was read
BodyAborted ==
    /\ probe.fn = "BubblChatbot"
    /\ \E k \in 1..Len(probe.calls) :
          LET call == probe.calls[k]
          IN  /\ call.at = "reading"
              /\ probe.aborts[call.signal] # "no"
              /\ probe' = submitFails(probe, k)
    /\ UNCHANGED <<env, handlerVars>>

\* lines 82-87: the component unmounts
Unmount ==
    /\ probe.fn = "BubblChatbot"
    /\ probe.mounted
    /\ probe' = [abort(probe, probe.held, "unmount") EXCEPT !.mounted = FALSE]
    /\ UNCHANGED <<env, handlerVars>>

\* lines 67-80: handleOnline and handleOffline, on the window's events
ConnectionEvent ==
    /\ probe.fn = "BubblChatbot"
    /\ probe.mounted
    /\ \E status \in {"online", "offline"} :
          /\ status # probe.connectionStatus
          /\ probe' = [probe EXCEPT !.connectionStatus = status]
    /\ UNCHANGED <<env, handlerVars>>

NextWidget ==
    \/ handleSubmit
    \/ FetchResolves
    \/ FetchAborted
    \/ FetchFails
    \/ RequestTimeout
    \/ RetryDelayElapsed
    \/ BodyRead
    \/ BodyAborted
    \/ Unmount
    \/ ConnectionEvent

SpecWidget == InitWidget /\ [][NextWidget]_vars

-----------------------------------------------------------------------------
(* The widget's single request slot (C25) and its retries (C30), over
   SpecWidget. *)

Widget == probe.fn = "BubblChatbot"

\* the submissions whose request is on its way or whose response is being read
InFlight == {k \in 1..Len(probe.calls) : probe.calls[k].at \in {"fetching", "reading"}}

Live(c) == probe.aborts[c] = "no"

\* this step appends a reply of the server to the message list
AppendsReply ==
    /\ Len(probe'.messages) = Len(probe.messages) + 1
    /\ probe'.messages[Len(probe'.messages)].role = "assistant"
    /\ ~probe'.messages[Len(probe'.messages)].isError

\* C25: every start of a fetch, for a new submission or for a retry, first aborts
\* the controller held before, so every controller but the held one is aborted
\* and at most one request that is not aborted is in flight; and the reply
\* appended to the message list is never that of an aborted request.
C25_SingleLiveRequest ==
    /\ [](Widget =>
            /\ \A c \in 1..probe.created : c # probe.held => ~Live(c)
            /\ Cardinality({k \in InFlight : Live(probe.calls[k].signal)}) <= 1)
    /\ [][(Widget /\ AppendsReply) =>
            Live(probe'.messages[Len(probe'.messages)].of)]_vars

\* a retry is in flight and the controller of the answered fetch before it was
\* aborted by the start of the retry
C25_Witness ==
    /\ Widget
    /\ probe.created >= 2
    /\ probe.aborts[probe.created - 1] = "next fetch"
    /\ \E k \in InFlight : probe.calls[k].signal = probe.held /\ Live(probe.held)

\* a reply was appended and the submission after it has its request in flight
C25_WitnessReply ==
    /\ Widget
    /\ \E i \in 1..Len(probe.messages) :
          probe.messages[i].role = "assistant" /\ ~probe.messages[i].isError
    /\ Len(probe.calls) = 2
    /\ InFlight = {2}

\* C30: a fetch is started by a submission, or as a retry after a response with
\* status 500 or above or after the 30 s request timeout fired, never after an
\* abort by the unmount or by another call; and a submission starts at most
\* MAX_RETRIES + 1 fetches.
C30_RetryOnlyAfterServerErrorOrTimeout ==
    Widget =>
        /\ \A i \in 1..Len(probe.starts) :
              probe.starts[i].cause \in {"submission", "server error", "timeout"}
        /\ \A k \in 1..Len(probe.calls) :
              Cardinality({i \in 1..Len(probe.starts) : probe.starts[i].submission = k})
                  <= MAX_RETRIES + 1

====
